---- MODULE Spec2Model ----
(***************************************************************************)
(* A model of the photoshoot generator: the Streamlit session state that   *)
(* the form fills (src/app.py), build_config and determine_method          *)
(* (src/app.py), the image part assembler prepare_image_parts and the      *)
(* batch variation of generate_image (src/gemini_client.py), the prompt    *)
(* builders (src/prompt_builder.py) and the Generate handler with its      *)
(* batch loop (src/app.py).                                                *)
(*                                                                         *)
(* Python strings are TLA+ strings; an f-string is the sequence of its     *)
(* literal and interpolated pieces, in order; a list of prompt fragments   *)
(* is a sequence of such sequences.                                        *)
(***************************************************************************)
EXTENDS Integers, Sequences, FiniteSets, TLC

(***************************************************************************)
(* Bounds of the model.                                                    *)
(***************************************************************************)
\* at most this many form fields differ from a fresh session
MaxFilled == 2
\* at most this many additional items are in the list
MaxItems == 2
\* the image count offered by the form is 1..MaxCount (the form allows 10)
MaxCount == 2
\* at most this many item images are uploaded in a session
MaxUploads == 2

(***************************************************************************)
(* Values.                                                                 *)
(***************************************************************************)
\* Python's None, where an argument may be None
None == "<None>"
\* a whitespace-only text, as a text widget returns it when only blanks
\* were typed
Blank == "  "
WhitespaceOnly == {" ", Blank}
\* the texts the form fields take
Texts == {"", Blank, "red silk dress"}
\* the keys of the sections render_input_section / the tabs fill
PlainSections == {"model_ref", "outfit", "environment", "pose", "hair"}
JewelryKeys == {"jewelry_neck", "jewelry_ears", "jewelry_hands"}
SectionKeys == PlainSections \cup JewelryKeys
UrlKeys == SectionKeys \cup {"new_item"}
\* the item types offered by the form that the model uses
ItemTypes == {"Jacket", "Bag"}

\* s.strip() on the strings of the model: a whitespace-only string becomes
\* empty, a string without leading or trailing whitespace is unchanged
strip(s) == IF s \in WhitespaceOnly THEN "" ELSE s

\* bool(s) for a string or None
Truthy(s) == s # None /\ s # ""

\* the image_type argument handle_image_upload is called with, per session key
ImageTypeOf(session_key) ==
    CASE session_key = "new_item" -> "item"
      [] session_key = "environment" -> "background"
      [] OTHER -> session_key

\* result['public_url'] of the n-th successful upload of an image type: the
\* file name carries the type, a timestamp and a random id, so two uploads
\* never share a URL
public_url(image_type, n) ==
    CASE image_type = "model_ref" -> "https://cdn/model-refs/photoshoot_model_ref.jpg"
      [] image_type = "outfit" -> "https://cdn/outfit-refs/photoshoot_outfit.jpg"
      [] image_type = "jewelry_neck" -> "https://cdn/jewelry-refs/photoshoot_jewelry_neck.jpg"
      [] image_type = "jewelry_ears" -> "https://cdn/jewelry-refs/photoshoot_jewelry_ears.jpg"
      [] image_type = "jewelry_hands" -> "https://cdn/jewelry-refs/photoshoot_jewelry_hands.jpg"
      [] image_type = "background" -> "https://cdn/environment-refs/photoshoot_background.jpg"
      [] image_type = "pose" -> "https://cdn/pose-refs/photoshoot_pose.jpg"
      [] image_type = "hair" -> "https://cdn/hair-refs/photoshoot_hair.jpg"
      [] image_type = "item" ->
           <<"https://cdn/item-refs/photoshoot_item_1.jpg",
             "https://cdn/item-refs/photoshoot_item_2.jpg",
             "https://cdn/item-refs/photoshoot_item_3.jpg",
             "https://cdn/item-refs/photoshoot_item_4.jpg",
             "https://cdn/item-refs/photoshoot_item_5.jpg">>[n]

(***************************************************************************)
(* The state.                                                              *)
(***************************************************************************)
VARIABLES
    ss_text,           \* st.session_state["<section>_text"]
    ss_url,            \* st.session_state["<section>_url"], "" when absent
    ss_enabled,        \* st.session_state["<jewelry>_enabled"]
    ss_opt,            \* the select/radio/number widgets of the form
    additional_items,  \* st.session_state.additional_items
    url_order,         \* the "<key>_url" keys in the order they were stored
    item_uploads,      \* how many item images were uploaded so far
    added_at,          \* history: item_uploads when Add Item was last pressed
    pc,                \* where the script is: the form, or inside the handler
    image_parts,       \* the handler's image_parts
    image_mapping,     \* the handler's image_mapping
    prompt,            \* the handler's prompt
    i,                 \* the batch loop's index
    fetched,           \* the reference fetches made (url_to_base64 calls)
    failed_fetches,    \* the label keys whose fetch raised in this run
    gen_calls,         \* the generate_image calls made, with their arguments
    stored,            \* the upload_generated_image calls made
    generated_images,  \* the handler's generated_images
    errors,            \* the st.error reports of the handler
    outcomes,          \* what happened to each output of the batch so far
    dm,                \* a determine_method call: its arguments and result
    gi,                \* a generate_image call: its arguments, request, result
    ar                 \* the handler's reading of a configuration's output settings

session == <<ss_text, ss_url, ss_enabled, ss_opt, additional_items, url_order,
             item_uploads, added_at>>
run == <<pc, image_parts, image_mapping, prompt, i, fetched, failed_fetches,
         gen_calls, stored, generated_images, errors, outcomes>>
calls == <<dm, gi, ar>>
vars == <<session, run, calls>>

(***************************************************************************)
(* src/app.py: determine_method and build_config.                          *)
(***************************************************************************)
\* determine_method without the strip() of its two tests
determine_method_no_strip(text, image_url, default) ==
    LET has_text == Truthy(text)
        has_image == Truthy(image_url)
    IN  IF has_text /\ has_image THEN "text_and_image"
        ELSE IF has_text THEN "text_description"
        ELSE IF has_image THEN "image_reference"
        ELSE default

determine_method(text, image_url, default) ==
    LET has_text == Truthy(text) /\ Truthy(strip(text))
        has_image == Truthy(image_url) /\ Truthy(strip(image_url))
    IN  IF has_text /\ has_image THEN "text_and_image"
        ELSE IF has_text THEN "text_description"
        ELSE IF has_image THEN "image_reference"
        ELSE default

\* env_category.lower().replace(" ", "_") on the options of the select box
category_of(env_category) ==
    CASE env_category = "Studio" -> "studio"
      [] env_category = "Indoor Lifestyle" -> "indoor_lifestyle"
      [] env_category = "Outdoor Urban" -> "outdoor_urban"
      [] env_category = "Outdoor Nature" -> "outdoor_nature"

\* platform_map.get(platform_preset, "instagram_portrait")
platform_of(platform_preset) ==
    CASE platform_preset = "Instagram Portrait (4:5)" -> "instagram_portrait"
      [] platform_preset = "Instagram Story (9:16)" -> "instagram_story"
      [] platform_preset = "Instagram Square (1:1)" -> "instagram_square"
      [] platform_preset = "Default (2:3)" -> "default"
      [] OTHER -> "instagram_portrait"

\* option.lower() on the options of the aesthetic and item type select boxes
lower(option) ==
    CASE option = "Editorial" -> "editorial"
      [] option = "Commercial" -> "commercial"
      [] option = "Lifestyle" -> "lifestyle"
      [] option = "High Fashion" -> "high fashion"
      [] option = "Casual" -> "casual"
      [] option = "Jacket" -> "jacket"
      [] option = "Bag" -> "bag"
      [] OTHER -> option

\* framing_map.get(photo_framing, "3/4_body")
framing_of(photo_framing) ==
    CASE photo_framing = "Full Body" -> "full_body"
      [] photo_framing = "3/4 Body" -> "3/4_body"
      [] photo_framing = "Waist Up" -> "waist_up"
      [] photo_framing = "Close Up" -> "close_up"
      [] OTHER -> "3/4_body"

\* lighting_map.get(photo_lighting, "soft_warm")
lighting_of(photo_lighting) ==
    CASE photo_lighting = "Soft Warm" -> "soft_warm"
      [] photo_lighting = "Studio Clean" -> "studio_clean"
      [] photo_lighting = "Golden Hour" -> "golden_hour"
      [] photo_lighting = "Hard Shadows" -> "hard_shadows"
      [] photo_lighting = "Natural" -> "natural"
      [] OTHER -> "soft_warm"

\* one jewelry location of the configuration
JewelryConfig(key) ==
    [enabled |-> ss_enabled[key],
     method |-> determine_method(ss_text[key], ss_url[key], "none"),
     text |-> ss_text[key],
     image_url |-> ss_url[key]]

build_config ==
    [meta |-> [platform_preset |-> platform_of(ss_opt.platform_preset)],
     model_reference |->
        [method |-> determine_method(ss_text["model_ref"], ss_url["model_ref"],
                                     "text_description"),
         text_description |-> ss_text["model_ref"],
         image_url |-> ss_url["model_ref"],
         face_action |-> IF ss_opt.model_action = "Keep from reference"
                         THEN "keep" ELSE "generate"],
     base_outfit |->
        [method |-> determine_method(ss_text["outfit"], ss_url["outfit"],
                                     "text_description"),
         text_description |-> ss_text["outfit"],
         image_url |-> ss_url["outfit"]],
     additional_items |-> additional_items,
     jewelry |->
        [neck |-> JewelryConfig("jewelry_neck"),
         ears |-> JewelryConfig("jewelry_ears"),
         hands_wrists |-> JewelryConfig("jewelry_hands")],
     environment |->
        [category |-> category_of(ss_opt.env_category),
         method |-> determine_method(ss_text["environment"], ss_url["environment"],
                                     "auto"),
         text_description |-> ss_text["environment"],
         image_url |-> ss_url["environment"]],
     photography |->
        [aesthetic |-> lower(ss_opt.photo_aesthetic),
         framing |-> framing_of(ss_opt.photo_framing),
         lighting |-> lighting_of(ss_opt.photo_lighting),
         pose |->
            [method |-> determine_method(ss_text["pose"], ss_url["pose"], "auto"),
             text |-> ss_text["pose"],
             image_url |-> ss_url["pose"],
             strength |-> 80],
         hair |->
            [method |-> determine_method(ss_text["hair"], ss_url["hair"], "auto"),
             text |-> ss_text["hair"],
             image_url |-> ss_url["hair"]]],
     output |->
        [count |-> ss_opt.image_count,
         batch_variety |-> IF ss_opt.batch_variety = "Subtle Variations"
                           THEN "subtle_variations" ELSE "dynamic_angles"]]

(***************************************************************************)
(* src/gemini_client.py: _add_image_part and prepare_image_parts.          *)
(*                                                                         *)
(* The assembler's state while it walks the configuration: the parts and   *)
(* the mapping built so far, the keys of the mapping in insertion order,   *)
(* the fetches made, and whether an exception left the function.  `failed` *)
(* is the set of label keys whose fetch (url_to_base64) raises in this     *)
(* run.                                                                    *)
(***************************************************************************)
\* the value url_to_base64 returns for a URL
url_to_base64(image_url) == <<"base64", image_url>>

InlinePart(image_url) ==
    [inlineData |-> [mimeType |-> "image/jpeg", data |-> url_to_base64(image_url)]]

TextPart(pieces) == [text |-> pieces]

IsImagePart(part) == "inlineData" \in DOMAIN part
IsTextPart(part) == "text" \in DOMAIN part

\* a fetch failure leaves the function as an exception
add_image_part_raising(s, image_url, fails) ==
    IF Truthy(image_url)
    THEN IF fails
         THEN [s EXCEPT !.fetched = Append(@, image_url), !.raised = TRUE]
         ELSE [s EXCEPT !.fetched = Append(@, image_url),
                        !.parts = Append(@, InlinePart(image_url))]
    ELSE s

\* _add_image_part: the except clause swallows the failure after a warning
add_image_part(s, image_url, fails) ==
    IF Truthy(image_url)
    THEN IF fails
         THEN [s EXCEPT !.fetched = Append(@, image_url)]
         ELSE [s EXCEPT !.fetched = Append(@, image_url),
                        !.parts = Append(@, InlinePart(image_url))]
    ELSE s

\* the block with its two appends swapped: the image part first
AddReference_image_first(s, cond, text, image_url, label, description, failed) ==
    IF s.raised \/ ~cond THEN s
    ELSE LET s1 == add_image_part(s, image_url, label \in failed)
             s2 == [s1 EXCEPT !.parts = Append(@, TextPart(text))]
         IN  [s2 EXCEPT !.image_mapping =
                 [k \in DOMAIN @ \cup {label} |->
                     IF k = label THEN description ELSE @[k]],
                        !.labels = Append(@, label)]

\* one "if <section has an image>:" block of prepare_image_parts: the text
\* part, the image part, the label
AddReference(s, cond, text, image_url, label, description, failed) ==
    IF s.raised \/ ~cond THEN s
    ELSE LET s1 == [s EXCEPT !.parts = Append(@, TextPart(text))]
             s2 == add_image_part(s1, image_url, label \in failed)
         IN  IF s2.raised THEN s2
             ELSE [s2 EXCEPT !.image_mapping =
                      [k \in DOMAIN @ \cup {label} |->
                          IF k = label THEN description ELSE @[k]],
                             !.labels = Append(@, label)]

\* f"item_{idx}" for the 0-based position idx
item_label(idx) == <<"item_0", "item_1", "item_2", "item_3">>[idx + 1]

\* item_type.upper()
upper(item_type) ==
    CASE item_type = "jacket" -> "JACKET"
      [] item_type = "bag" -> "BAG"
      [] OTHER -> item_type

ModelRefText ==
    <<"REFERENCE IMAGE 1 - MODEL: This image shows the model reference. Use the model's face and appearance from this image.">>
OutfitText ==
    <<"REFERENCE IMAGE - OUTFIT: This image shows the outfit/clothing to be worn. REPLACE the model's clothing with the outfit from this image.">>
ItemText(item_type) ==
    <<"REFERENCE IMAGE - ADDITIONAL ITEM (", upper(item_type),
      "): This image shows a ", item_type, " to add to the outfit.">>
NeckText ==
    <<"REFERENCE IMAGE - NECK JEWELRY: This image shows the necklace/jewelry to wear around the neck. Apply this jewelry to the neck area.">>
EarsText ==
    <<"REFERENCE IMAGE - EAR JEWELRY: This image shows the earrings/jewelry to wear on the ears. Apply this jewelry to the ears.">>
HandsText ==
    <<"REFERENCE IMAGE - HAND/WRIST JEWELRY: This image shows the rings/bracelets to wear on hands and wrists. Apply this jewelry to the hands and wrists.">>
EnvironmentText ==
    <<"REFERENCE IMAGE - BACKGROUND: This image shows the background/environment to use for the photoshoot.">>
PoseText ==
    <<"REFERENCE IMAGE - POSE: This image shows the pose to mimic. Use the pose and body positioning from this image.">>
HairText ==
    <<"REFERENCE IMAGE - HAIRSTYLE: This image shows the hairstyle to apply. Use the hairstyle from this image.">>

ModelRefDescription == <<"the model reference image (Image 1)">>
OutfitDescription == <<"the outfit image (which replaces the model's clothing)">>
ItemDescription(item_type) == <<"the ", item_type, " reference image">>
NeckDescription == <<"the neck jewelry reference image">>
EarsDescription == <<"the ear jewelry reference image">>
HandsDescription == <<"the hand/wrist jewelry reference image">>
EnvironmentDescription == <<"the background/environment reference image">>
PoseDescription == <<"the pose reference image">>
HairDescription == <<"the hairstyle reference image">>

\* the items labelled by item_counter, the count of the images so far,
\* instead of the position idx
RECURSIVE AddItems_by_counter(_, _, _, _)
AddItems_by_counter(s, items, idx, failed) ==
    IF idx >= Len(items) THEN s
    ELSE LET item == items[idx + 1]
             HasImage(it) == Truthy(it.image_url)
             item_counter == Len(SelectSeq(SubSeq(items, 1, idx), HasImage))
         IN  AddItems_by_counter(
                 AddReference(s, Truthy(item.image_url), ItemText(item.type),
                              item.image_url, item_label(item_counter),
                              ItemDescription(item.type), failed),
                 items, idx + 1, failed)

\* for idx, item in enumerate(additional_items), from position idx on
RECURSIVE AddItems(_, _, _, _)
AddItems(s, items, idx, failed) ==
    IF idx >= Len(items) THEN s
    ELSE LET item == items[idx + 1]
         IN  AddItems(AddReference(s, Truthy(item.image_url), ItemText(item.type),
                                   item.image_url, item_label(idx),
                                   ItemDescription(item.type), failed),
                      items, idx + 1, failed)

AssemblerStart ==
    [parts |-> <<>>, image_mapping |-> <<>>, labels |-> <<>>, fetched |-> <<>>,
     raised |-> FALSE]

AddModelRef(s, config, failed) ==
    AddReference(s, Truthy(config.model_reference.image_url), ModelRefText,
                 config.model_reference.image_url, "model_ref",
                 ModelRefDescription, failed)
AddOutfit(s, config, failed) ==
    AddReference(s, Truthy(config.base_outfit.image_url), OutfitText,
                 config.base_outfit.image_url, "outfit", OutfitDescription, failed)
\* the neck block without the test of the enabled flag
AddNeck_ignoring_enabled(s, config, failed) ==
    AddReference(s, Truthy(config.jewelry.neck.image_url),
                 NeckText, config.jewelry.neck.image_url, "jewelry_neck",
                 NeckDescription, failed)
AddNeck(s, config, failed) ==
    AddReference(s, config.jewelry.neck.enabled /\ Truthy(config.jewelry.neck.image_url),
                 NeckText, config.jewelry.neck.image_url, "jewelry_neck",
                 NeckDescription, failed)
AddEars(s, config, failed) ==
    AddReference(s, config.jewelry.ears.enabled /\ Truthy(config.jewelry.ears.image_url),
                 EarsText, config.jewelry.ears.image_url, "jewelry_ears",
                 EarsDescription, failed)
AddHands(s, config, failed) ==
    AddReference(s, config.jewelry.hands_wrists.enabled
                    /\ Truthy(config.jewelry.hands_wrists.image_url),
                 HandsText, config.jewelry.hands_wrists.image_url, "jewelry_hands",
                 HandsDescription, failed)
AddEnvironment(s, config, failed) ==
    AddReference(s, Truthy(config.environment.image_url), EnvironmentText,
                 config.environment.image_url, "environment",
                 EnvironmentDescription, failed)
AddPose(s, config, failed) ==
    AddReference(s, Truthy(config.photography.pose.image_url), PoseText,
                 config.photography.pose.image_url, "pose", PoseDescription, failed)
AddHair(s, config, failed) ==
    AddReference(s, Truthy(config.photography.hair.image_url), HairText,
                 config.photography.hair.image_url, "hair", HairDescription, failed)

\* the walk in the order the URLs were stored in the session instead
AddByKey(s, key, config, failed) ==
    CASE key = "model_ref" -> AddModelRef(s, config, failed)
      [] key = "outfit" -> AddOutfit(s, config, failed)
      [] key = "new_item" -> AddItems(s, config.additional_items, 0, failed)
      [] key = "jewelry_neck" -> AddNeck(s, config, failed)
      [] key = "jewelry_ears" -> AddEars(s, config, failed)
      [] key = "jewelry_hands" -> AddHands(s, config, failed)
      [] key = "environment" -> AddEnvironment(s, config, failed)
      [] key = "pose" -> AddPose(s, config, failed)
      [] key = "hair" -> AddHair(s, config, failed)

RECURSIVE WalkUploaded(_, _, _, _)
WalkUploaded(s, keys, config, failed) ==
    IF keys = <<>> THEN s
    ELSE WalkUploaded(AddByKey(s, Head(keys), config, failed), Tail(keys),
                      config, failed)

prepare_image_parts_in_upload_order(config, failed) ==
    WalkUploaded(AssemblerStart, url_order, config, failed)

prepare_image_parts(config, failed) ==
    LET s1 == AddModelRef(AssemblerStart, config, failed)
        s2 == AddOutfit(s1, config, failed)
        s3 == AddItems(s2, config.additional_items, 0, failed)
        s4 == AddNeck(s3, config, failed)
        s5 == AddEars(s4, config, failed)
        s6 == AddHands(s5, config, failed)
        s7 == AddEnvironment(s6, config, failed)
        s8 == AddPose(s7, config, failed)
    IN  AddHair(s8, config, failed)

(***************************************************************************)
(* src/prompt_builder.py.  A builder returns its list of fragments; a      *)
(* fragment is the sequence of the pieces of its f-string.                 *)
(***************************************************************************)
\* d.get(key, default)
Get(d, key, default) == IF key \in DOMAIN d THEN d[key] ELSE default

\* sep.join(items), each item a sequence of pieces
RECURSIVE Join(_, _)
Join(items, sep) ==
    IF items = <<>> THEN <<>>
    ELSE IF Len(items) = 1 THEN items[1]
    ELSE items[1] \o <<sep>> \o Join(Tail(items), sep)

\* s.replace("_", " ") on the framing and lighting values
replace_underscore(v) ==
    CASE v = "full_body" -> "full body"
      [] v = "3/4_body" -> "3/4 body"
      [] v = "waist_up" -> "waist up"
      [] v = "close_up" -> "close up"
      [] v = "soft_warm" -> "soft warm"
      [] v = "studio_clean" -> "studio clean"
      [] v = "golden_hour" -> "golden hour"
      [] v = "hard_shadows" -> "hard shadows"
      [] OTHER -> v

\* the lookup by indexing, which fails on an unknown preset
map_platform_preset_by_index(platform_preset) ==
    CASE platform_preset = "instagram_portrait" -> "4:5"
      [] platform_preset = "instagram_story" -> "9:16"
      [] platform_preset = "instagram_square" -> "1:1"
      [] platform_preset = "default" -> "2:3"
      [] OTHER -> "<KeyError>"

map_platform_preset_to_aspect_ratio(platform_preset) ==
    CASE platform_preset = "instagram_portrait" -> "4:5"
      [] platform_preset = "instagram_story" -> "9:16"
      [] platform_preset = "instagram_square" -> "1:1"
      [] platform_preset = "default" -> "2:3"
      [] OTHER -> "2:3"

\* the keep branch taken whenever there is a model image, next to the
\* generate sentence
build_model_reference_prompt_keep_with_image(model_ref, mapping) ==
    LET face_action == Get(model_ref, "face_action", "keep")
        p1 == IF Truthy(model_ref.text_description)
              THEN << <<"Model appearance: ", model_ref.text_description, ".">> >>
              ELSE <<>>
        p2 == (IF face_action = "generate" /\ Truthy(model_ref.image_url)
               THEN << <<"Generate a new model face.">> >> ELSE <<>>) \o
              IF face_action = "keep" \/ Truthy(model_ref.image_url)
              THEN IF Truthy(model_ref.image_url) /\ "model_ref" \in DOMAIN mapping
                   THEN << <<"CRITICAL: Extract and use the EXACT same face from ">>
                           \o mapping["model_ref"]
                           \o <<". The face features (eyes, nose, mouth, facial structure, skin tone, facial proportions) must match exactly. Also extract the body figure and proportions from ">>
                           \o mapping["model_ref"]
                           \o <<". IGNORE the background, clothing, outfit, accessories, and any other elements from the model reference image.">> >>
                   ELSE << <<"CRITICAL: Extract and use the EXACT same face from the model reference image. The face features must match exactly. Also extract the body figure and proportions. IGNORE the background, clothing, outfit, accessories, and any other elements.">> >>
              ELSE IF face_action = "generate"
              THEN IF Truthy(Get(model_ref, "new_model_description", None))
                   THEN << <<"Generate a new model with the following characteristics: ",
                             model_ref.new_model_description, ".">> >>
                   ELSE << <<"Generate a new model face.">> >>
              ELSE <<>>
        p3 == IF Truthy(model_ref.image_url) /\ face_action = "keep"
              THEN << <<"IMPORTANT: The model reference image should ONLY be used to extract the face and body figure. Do not use any other elements from that image.">> >>
              ELSE <<>>
    IN  p1 \o p2 \o p3

build_model_reference_prompt(model_ref, mapping) ==
    LET face_action == Get(model_ref, "face_action", "keep")
        p1 == IF Truthy(model_ref.text_description)
              THEN << <<"Model appearance: ", model_ref.text_description, ".">> >>
              ELSE <<>>
        p2 == IF face_action = "keep"
              THEN IF Truthy(model_ref.image_url) /\ "model_ref" \in DOMAIN mapping
                   THEN << <<"CRITICAL: Extract and use the EXACT same face from ">>
                           \o mapping["model_ref"]
                           \o <<". The face features (eyes, nose, mouth, facial structure, skin tone, facial proportions) must match exactly. Also extract the body figure and proportions from ">>
                           \o mapping["model_ref"]
                           \o <<". IGNORE the background, clothing, outfit, accessories, and any other elements from the model reference image.">> >>
                   ELSE << <<"CRITICAL: Extract and use the EXACT same face from the model reference image. The face features must match exactly. Also extract the body figure and proportions. IGNORE the background, clothing, outfit, accessories, and any other elements.">> >>
              ELSE IF face_action = "generate"
              THEN IF Truthy(Get(model_ref, "new_model_description", None))
                   THEN << <<"Generate a new model with the following characteristics: ",
                             model_ref.new_model_description, ".">> >>
                   ELSE << <<"Generate a new model face.">> >>
              ELSE <<>>
        p3 == IF Truthy(model_ref.image_url) /\ face_action = "keep"
              THEN << <<"IMPORTANT: The model reference image should ONLY be used to extract the face and body figure. Do not use any other elements from that image.">> >>
              ELSE <<>>
    IN  p1 \o p2 \o p3

build_outfit_prompt(outfit, mapping) ==
    LET outfit_ref == Get(mapping, "outfit", <<"the outfit reference image">>)
        p1 == IF Truthy(outfit.image_url)
              THEN << <<"CRITICAL REQUIREMENT: Extract ONLY the clothing/outfit from ">>
                      \o outfit_ref
                      \o <<". IGNORE any person, model, face, body, or background in ">>
                      \o outfit_ref
                      \o <<". If there is a person wearing the outfit in ">>
                      \o outfit_ref
                      \o <<", extract ONLY the clothing items (shirt, dress, pants, jacket, etc.) and completely ignore the person. REPLACE the model's clothing with ONLY the extracted outfit from ">>
                      \o outfit_ref
                      \o <<". Maintain the clothing design, texture, color, and details from the extracted outfit.">> >>
              ELSE IF Truthy(outfit.text_description)
              THEN << <<"Apply the following outfit as described.">> >>
              ELSE <<>>
        p2 == IF Truthy(outfit.text_description)
              THEN << <<"Outfit: ", outfit.text_description, ".">> >>
              ELSE <<>>
    IN  p1 \o p2

\* the item_descriptions of the items from position idx on
RECURSIVE item_descriptions(_, _, _)
item_descriptions(items, idx, mapping) ==
    IF idx >= Len(items) THEN <<>>
    ELSE LET item == items[idx + 1]
             item_type == Get(item, "type", "item")
             item_ref == Get(mapping, item_label(idx),
                             <<"the ", item_type, " reference image">>)
             here == IF Truthy(item.text)
                     THEN << <<item_type, ": ", item.text>> >>
                     ELSE IF Truthy(item.image_url)
                     THEN << <<item_type, ": extract ONLY the ", item_type, " from ">>
                             \o item_ref
                             \o <<", ignore any person/background/other elements">> >>
                     ELSE <<>>
         IN  here \o item_descriptions(items, idx + 1, mapping)

build_additional_items_prompt(items, mapping) ==
    IF items = <<>> THEN <<>>
    ELSE LET descriptions == item_descriptions(items, 0, mapping)
         IN  IF descriptions # <<>>
             THEN << <<"Additional items: ">> \o Join(descriptions, "; ") \o <<".">> >>
             ELSE <<>>

\* every location looks its image up under one generic jewelry label
jewelry_item_generic_ref(loc, name, label, fallback, apply_to, mapping) ==
    IF loc.enabled
    THEN LET method == Get(loc, "method", "none")
             ref == Get(mapping, "jewelry", <<"the jewelry reference image">>)
         IN  IF method = "text_description" /\ Truthy(loc.text)
             THEN << <<name, ": ", loc.text>> >>
             ELSE IF method = "image_reference"
             THEN << <<name, ": extract ONLY the jewelry from ">> \o ref
                     \o <<", ignore any person/background/other elements, apply to ",
                          apply_to>> >>
             ELSE IF method = "text_and_image" /\ Truthy(loc.text)
             THEN << <<name, ": ", loc.text, " (extract jewelry from ">> \o ref
                     \o <<", ignore person/background)">> >>
             ELSE <<>>
    ELSE <<>>

\* the jewelry_items entry of one location
jewelry_item(loc, name, label, fallback, apply_to, mapping) ==
    IF loc.enabled
    THEN LET method == Get(loc, "method", "none")
             ref == Get(mapping, label, fallback)
         IN  IF method = "text_description" /\ Truthy(loc.text)
             THEN << <<name, ": ", loc.text>> >>
             ELSE IF method = "image_reference"
             THEN << <<name, ": extract ONLY the jewelry from ">> \o ref
                     \o <<", ignore any person/background/other elements, apply to ",
                          apply_to>> >>
             ELSE IF method = "text_and_image" /\ Truthy(loc.text)
             THEN << <<name, ": ", loc.text, " (extract jewelry from ">> \o ref
                     \o <<", ignore person/background)">> >>
             ELSE <<>>
    ELSE <<>>

\* one sentence for every entry instead of one aggregated sentence
build_jewelry_prompt_sentence_each(jewelry, mapping) ==
    LET jewelry_items ==
            jewelry_item(jewelry.neck, "neck", "jewelry_neck",
                         <<"the neck jewelry reference image">>, "neck area", mapping)
            \o jewelry_item(jewelry.ears, "ears", "jewelry_ears",
                            <<"the ear jewelry reference image">>, "ears", mapping)
            \o jewelry_item(jewelry.hands_wrists, "hands/wrists", "jewelry_hands",
                            <<"the hand/wrist jewelry reference image">>,
                            "hands and wrists", mapping)
    IN  [j \in 1..Len(jewelry_items) |->
            <<"Jewelry and accessories: ">> \o jewelry_items[j] \o <<".">>]

build_jewelry_prompt(jewelry, mapping) ==
    LET jewelry_items ==
            jewelry_item(jewelry.neck, "neck", "jewelry_neck",
                         <<"the neck jewelry reference image">>, "neck area", mapping)
            \o jewelry_item(jewelry.ears, "ears", "jewelry_ears",
                            <<"the ear jewelry reference image">>, "ears", mapping)
            \o jewelry_item(jewelry.hands_wrists, "hands/wrists", "jewelry_hands",
                            <<"the hand/wrist jewelry reference image">>,
                            "hands and wrists", mapping)
    IN  IF jewelry_items # <<>>
        THEN << <<"Jewelry and accessories: ">> \o Join(jewelry_items, ", ") \o <<".">> >>
        ELSE <<>>

category_description(category) ==
    CASE category = "studio" -> "professional studio setting"
      [] category = "indoor_lifestyle" -> "indoor lifestyle environment"
      [] category = "outdoor_urban" -> "outdoor urban environment"
      [] category = "outdoor_nature" -> "outdoor natural environment"
      [] OTHER -> category

EnvironmentExtraction(env_ref) ==
    <<"CRITICAL: Extract ONLY the background/environment/scene from ">> \o env_ref
    \o <<". IGNORE any person, model, face, body, clothing, or foreground elements. Use ONLY the background, environment setting, and scene from ">>
    \o env_ref \o <<".">>

\* the fragment of the method takes the place of the category sentence
build_environment_prompt_method_instead(environment, mapping) ==
    LET category == Get(environment, "category", "studio")
        method == Get(environment, "method", "auto")
    IN  IF method = "text_description" /\ Truthy(environment.text_description)
        THEN << <<"Background details: ", environment.text_description, ".">> >>
        ELSE << <<"Environment: ", category_description(category), ".">> >>

build_environment_prompt(environment, mapping) ==
    LET category == Get(environment, "category", "studio")
        method == Get(environment, "method", "auto")
        env_ref == Get(mapping, "environment",
                       <<"the background/environment reference image">>)
        p1 == << <<"Environment: ", category_description(category), ".">> >>
        p2 == IF method = "text_description" /\ Truthy(environment.text_description)
              THEN << <<"Background details: ", environment.text_description, ".">> >>
              ELSE IF method = "reference_image" /\ Truthy(environment.image_url)
              THEN << EnvironmentExtraction(env_ref) >>
              ELSE <<>>
    IN  p1 \o p2

PoseExtraction(pose_ref, strength) ==
    <<"CRITICAL: Extract ONLY the body pose, positioning, and stance from ">> \o pose_ref
    \o <<". IGNORE the face, clothing, outfit, background, and other elements. Use ONLY the body positioning and pose from ">>
    \o pose_ref \o <<" with ", ToString(strength), "% similarity.">>

HairExtraction(hair_ref) ==
    <<"CRITICAL: Extract ONLY the hairstyle, hair texture, and hair styling from ">>
    \o hair_ref
    \o <<". IGNORE the face features, body, clothing, background, and other elements. Use ONLY the hairstyle and hair appearance from ">>
    \o hair_ref \o <<".">>

build_photography_prompt(photography, mapping) ==
    LET photo_settings ==
            (IF Truthy(photography.aesthetic)
             THEN << <<"aesthetic: ", photography.aesthetic>> >> ELSE <<>>)
            \o (IF Truthy(photography.framing)
                THEN << <<"framing: ", replace_underscore(photography.framing)>> >>
                ELSE <<>>)
            \o (IF Truthy(photography.lighting)
                THEN << <<"lighting: ", replace_underscore(photography.lighting)>> >>
                ELSE <<>>)
        p1 == IF photo_settings # <<>>
              THEN << <<"Photography style: ">> \o Join(photo_settings, ", ")
                      \o <<".">> >>
              ELSE <<>>
        shadows == strip(Get(photography, "shadows", ""))
        p2 == IF Truthy(shadows) /\ shadows # "None - No specific shadow requirements"
              THEN << <<"Shadows: ", shadows, ".">> >>
              ELSE <<>>
        pose == photography.pose
        pose_method == Get(pose, "method", "auto")
        pose_ref == Get(mapping, "pose", <<"the pose reference image">>)
        p3 == IF pose_method = "text_description" /\ Truthy(pose.text)
              THEN << <<"Pose: ", pose.text, ".">> >>
              ELSE IF pose_method = "reference_image" /\ Truthy(pose.image_url)
              THEN << PoseExtraction(pose_ref, Get(pose, "strength", 80)) >>
              ELSE <<>>
        hair == photography.hair
        hair_method == Get(hair, "method", "auto")
        hair_ref == Get(mapping, "hair", <<"the hairstyle reference image">>)
        p4 == IF hair_method = "text_description" /\ Truthy(hair.text)
              THEN << <<"Hair styling: ", hair.text, ".">> >>
              ELSE IF hair_method = "reference_image" /\ Truthy(hair.image_url)
              THEN << HairExtraction(hair_ref) >>
              ELSE IF hair_method = "keep_original"
              THEN << <<"Keep the original hairstyle from the reference.">> >>
              ELSE <<>>
    IN  p1 \o p2 \o p3 \o p4

build_quality_boost ==
    <<"realistic head to body ratio, ultra-detailed, highly realistic, professional photography, 8k uhd, cinematic lighting, soft natural light, sharp focus, perfect skin texture, lifelike eyes, accurate facial proportions, volumetric depth, subtle shadows, realistic skin tones, detailed hair strands, fine pores, depth of field, masterpiece, award-winning portrait style">>

ConsistencyDirective ==
    <<"CRITICAL CONSISTENCY REQUIREMENT: When generating multiple images, the model's face, body figure, outfit, all clothing items, jewelry, and accessories must remain EXACTLY THE SAME across all generated images. Only camera angles, poses, lighting variations, and composition can differ between images. All core elements must be identical.">>

\* the directive for every count, also for a single output
consistency_parts_for_any_count(output_count) ==
    IF output_count >= 1 THEN <<ConsistencyDirective>> ELSE <<>>

\* "if output_count > 1:", the first append of build_photoshoot_prompt
consistency_parts(output_count) ==
    IF output_count > 1 THEN <<ConsistencyDirective>> ELSE <<>>

\* the quality boost appended before the photography settings
photoshoot_parts_quality_early(config, mapping) ==
    consistency_parts(config.output.count)
    \o build_model_reference_prompt(config.model_reference, mapping)
    \o build_outfit_prompt(config.base_outfit, mapping)
    \o (IF config.additional_items # <<>>
        THEN build_additional_items_prompt(config.additional_items, mapping)
        ELSE <<>>)
    \o build_jewelry_prompt(config.jewelry, mapping)
    \o build_environment_prompt(config.environment, mapping)
    \o <<build_quality_boost>>
    \o build_photography_prompt(config.photography, mapping)

\* the list `parts` of build_photoshoot_prompt
photoshoot_parts(config, mapping) ==
    consistency_parts(config.output.count)
    \o build_model_reference_prompt(config.model_reference, mapping)
    \o build_outfit_prompt(config.base_outfit, mapping)
    \o (IF config.additional_items # <<>>
        THEN build_additional_items_prompt(config.additional_items, mapping)
        ELSE <<>>)
    \o build_jewelry_prompt(config.jewelry, mapping)
    \o build_environment_prompt(config.environment, mapping)
    \o build_photography_prompt(config.photography, mapping)
    \o <<build_quality_boost>>

build_photoshoot_prompt(config, mapping) ==
    Join(photoshoot_parts(config, mapping), " ")

(***************************************************************************)
(* src/gemini_client.py: generate_image, up to the request it sends.       *)
(***************************************************************************)
DynamicAngles ==
    <<"Slightly different camera angle", "Different pose variation",
      "Alternative composition", "Varied perspective", "Different lighting angle",
      "Alternative framing", "Shifted viewpoint", "New angle approach",
      "Fresh perspective", "Different positioning">>

SubtleVariations ==
    <<"Slight variation in expression", "Minor pose adjustment",
      "Subtle lighting change", "Small composition shift", "Gentle variation">>

\* a variation that appends the phrase to the prompt instead
final_prompt_suffixed(base, batch_index, batch_variety) ==
    IF batch_variety = "dynamic_angles"
    THEN base \o <<". ", DynamicAngles[(batch_index % Len(DynamicAngles)) + 1]>>
    ELSE IF batch_variety = "subtle_variations"
    THEN base \o <<". ", SubtleVariations[(batch_index % Len(SubtleVariations)) + 1]>>
    ELSE base

\* batch_index is an integer here: the handler always passes the loop index
final_prompt(base, batch_index, batch_variety) ==
    IF batch_variety = "dynamic_angles"
    THEN <<DynamicAngles[(batch_index % Len(DynamicAngles)) + 1], ". ">> \o base
    ELSE IF batch_variety = "subtle_variations"
    THEN <<SubtleVariations[(batch_index % Len(SubtleVariations)) + 1], ". ">> \o base
    ELSE base

\* a request whose variation ignores the batch index
request_parts_first_phrase(base, parts, batch_index, batch_variety) ==
    <<TextPart(final_prompt(base, 0, batch_variety))>> \o parts

\* the parts of the request: the text prompt first, then the image parts
request_parts(base, parts, batch_index, batch_variety) ==
    <<TextPart(final_prompt(base, batch_index, batch_variety))>> \o parts

\* a generate_image that inserts the prompt into the caller's list
image_parts_after_insert(base, parts, batch_index, batch_variety) ==
    <<TextPart(final_prompt(base, batch_index, batch_variety))>> \o parts

\* the caller's image_parts list after a generate_image call: the request is
\* a new list ([...] + image_parts), the argument is not touched
image_parts_after_call(base, parts, batch_index, batch_variety) == parts

(***************************************************************************)
(* The form (src/app.py): a fresh session and the widget interactions.     *)
(***************************************************************************)
FreshOpt ==
    [model_action |-> "Keep from reference",
     image_count |-> 2,
     batch_variety |-> "Subtle Variations",
     env_category |-> "Studio",
     platform_preset |-> "Instagram Portrait (4:5)",
     photo_aesthetic |-> "Editorial",
     photo_framing |-> "Full Body",
     photo_lighting |-> "Soft Warm"]

\* the values of the option widgets the model lets the user choose
OptionValues ==
    [model_action |-> {"Keep from reference", "Generate new"},
     image_count |-> 1..MaxCount,
     batch_variety |-> {"Subtle Variations", "Dynamic Angles"},
     env_category |-> {"Studio", "Indoor Lifestyle", "Outdoor Urban", "Outdoor Nature"},
     platform_preset |-> {"Instagram Portrait (4:5)", "Instagram Story (9:16)",
                          "Instagram Square (1:1)", "Default (2:3)"},
     photo_aesthetic |-> {"Editorial", "Commercial"},
     photo_framing |-> {"Full Body", "3/4 Body"},
     photo_lighting |-> {"Soft Warm", "Studio Clean"}]

\* how many form fields differ from the fresh session
Filled ==
    Cardinality({k \in SectionKeys : ss_text[k] # ""})
    + Cardinality({k \in UrlKeys : ss_url[k] # ""})
    + Cardinality({k \in JewelryKeys : ss_enabled[k]})
    + Cardinality({f \in DOMAIN ss_opt : ss_opt[f] # FreshOpt[f]})
    + Len(additional_items)

NoCall == [text |-> None, image_url |-> None, default |-> None, result |-> None]
\* no generate_image call is being followed on its own
NoGenerate == [step |-> "none"]
\* no reading of the output settings is being followed on its own
NoReading == [step |-> "none"]

InitSession ==
    /\ ss_text = [k \in SectionKeys |-> ""]
    /\ ss_url = [k \in UrlKeys |-> ""]
    /\ ss_enabled = [k \in JewelryKeys |-> FALSE]
    /\ ss_opt = FreshOpt
    /\ additional_items = <<>>
    /\ url_order = <<>>
    /\ item_uploads = 0
    /\ added_at = 0

InitRun ==
    /\ pc = "form"
    /\ image_parts = <<>>
    /\ image_mapping = <<>>
    /\ prompt = <<>>
    /\ i = 0
    /\ fetched = <<>>
    /\ failed_fetches = {}
    /\ gen_calls = <<>>
    /\ stored = <<>>
    /\ generated_images = <<>>
    /\ errors = <<>>
    /\ outcomes = <<>>

Init == InitSession /\ InitRun /\ dm = NoCall /\ gi = NoGenerate /\ ar = NoReading

\* a text widget of a section is edited; the jewelry text inputs are only
\* rendered while the location is enabled
SetText(k, t) ==
    /\ pc = "form"
    /\ t # ss_text[k]
    /\ k \in JewelryKeys => ss_enabled[k]
    /\ ss_text' = [ss_text EXCEPT ![k] = t]
    /\ UNCHANGED <<ss_url, ss_enabled, ss_opt, additional_items, url_order,
                   item_uploads, added_at, run, calls>>
    /\ Filled' <= MaxFilled

\* handle_image_upload: the Upload button next to a chosen file
handle_image_upload(session_key, success) ==
    /\ pc = "form"
    /\ session_key \in JewelryKeys => ss_enabled[session_key]
    /\ IF success
       THEN LET n == IF session_key = "new_item" THEN item_uploads + 1 ELSE 1
            IN  /\ ss_url' = [ss_url EXCEPT ![session_key] =
                                 public_url(ImageTypeOf(session_key), n)]
                /\ item_uploads' = IF session_key = "new_item" THEN n ELSE item_uploads
                /\ url_order' = IF \E j \in 1..Len(url_order) : url_order[j] = session_key
                                THEN url_order ELSE Append(url_order, session_key)
       ELSE UNCHANGED <<ss_url, item_uploads, url_order>>
    /\ UNCHANGED <<ss_text, ss_enabled, ss_opt, additional_items, added_at, run, calls>>
    /\ Filled' <= MaxFilled
    /\ item_uploads' <= MaxUploads

\* the Enable checkbox of a jewelry location; a text input that is no longer
\* rendered loses its value, the stored URL stays
SetEnabled(k) ==
    /\ pc = "form"
    /\ ss_enabled' = [ss_enabled EXCEPT ![k] = ~@]
    /\ ss_text' = IF ss_enabled[k] THEN [ss_text EXCEPT ![k] = ""] ELSE ss_text
    /\ UNCHANGED <<ss_url, ss_opt, additional_items, url_order, item_uploads, added_at,
                   run, calls>>
    /\ Filled' <= MaxFilled

\* a select box, radio or number input is changed
SetOption(f, v) ==
    /\ pc = "form"
    /\ v # ss_opt[f]
    /\ ss_opt' = [ss_opt EXCEPT ![f] = v]
    /\ UNCHANGED <<ss_text, ss_url, ss_enabled, additional_items, url_order,
                   item_uploads, added_at, run, calls>>
    /\ Filled' <= MaxFilled

\* the Add Item button
AddItem(item_type, new_item_text) ==
    /\ pc = "form"
    /\ Len(additional_items) < MaxItems
    /\ additional_items' = Append(additional_items,
                                  [type |-> lower(item_type),
                                   text |-> new_item_text,
                                   image_url |-> ss_url["new_item"]])
    /\ UNCHANGED <<ss_text, ss_url, ss_enabled, ss_opt, url_order, item_uploads,
                   run, calls>>
    /\ Filled' <= MaxFilled

\* the Remove button of the item at 0-based position idx
RemoveItem(idx) ==
    /\ pc = "form"
    /\ idx < Len(additional_items)
    /\ additional_items' = SubSeq(additional_items, 1, idx)
                           \o SubSeq(additional_items, idx + 2, Len(additional_items))
    /\ UNCHANGED <<ss_text, ss_url, ss_enabled, ss_opt, url_order, item_uploads,
                   added_at, run, calls>>

(***************************************************************************)
(* The Generate handler (src/app.py, "if generate_clicked:").              *)
(***************************************************************************)
\* the validation of the required fields
has_model_ref(config) ==
    Truthy(config.model_reference.text_description)
    \/ Truthy(config.model_reference.image_url)
has_outfit(config) ==
    Truthy(config.base_outfit.text_description) \/ Truthy(config.base_outfit.image_url)
\* a validation that insists on the model reference
passes_validation_needs_model(config) == has_model_ref(config)
passes_validation(config) == has_model_ref(config) \/ has_outfit(config)

\* the label keys of the sections whose image prepare_image_parts fetches
ReferenceLabels(config) == DOMAIN prepare_image_parts(config, {}).image_mapping

\* the click: build_config and the validation; st.stop() ends the script run
GenerateClicked ==
    /\ pc = "form"
    /\ IF passes_validation(build_config)
       THEN /\ pc' = "prepare"
            /\ errors' = errors
       ELSE /\ pc' = "stopped"
            /\ errors' = Append(errors, [kind |-> "validation", index |-> 0])
    /\ UNCHANGED <<session, image_parts, image_mapping, prompt, i, fetched,
                   failed_fetches, gen_calls, stored, generated_images, outcomes,
                   calls>>

\* prepare_image_parts inside its try block, then build_photoshoot_prompt;
\* the fetches of the labels in `failed` raise
PrepareImages(failed) ==
    /\ pc = "prepare"
    /\ LET r == prepare_image_parts(build_config, failed)
       IN  /\ fetched' = r.fetched
           /\ failed_fetches' = failed
           /\ IF r.raised
              THEN /\ pc' = "stopped"
                   /\ errors' = Append(errors, [kind |-> "prepare", index |-> 0])
                   /\ UNCHANGED <<image_parts, image_mapping, prompt>>
              ELSE /\ pc' = "loop"
                   /\ errors' = errors
                   /\ image_parts' = r.parts
                   /\ image_mapping' = r.image_mapping
                   /\ prompt' = build_photoshoot_prompt(build_config, r.image_mapping)
    /\ i' = 0
    /\ UNCHANGED <<session, gen_calls, stored, generated_images, outcomes, calls>>

\* a loop that gives up at the first failed output
loop_stops_on_failure(outcome) == outcome = "ok"
\* whether the loop goes on to the next index after an iteration's outcome:
\* the try/except and the upload check are inside the loop body
loop_continues(outcome) == TRUE

\* a handler that starts its results afresh when an output fails
images_after_dropping_on_failure(images, index, outcome) ==
    IF outcome = "ok"
    THEN Append(images, [index |-> index + 1, mime_type |-> "image/png"])
    ELSE <<>>

\* generated_images after the iteration for `index`: the append under
\* "if upload_result['success']:"
images_after(images, index, outcome) ==
    IF outcome = "ok"
    THEN Append(images, [index |-> index + 1, mime_type |-> "image/png"])
    ELSE images

\* one iteration of "for i in range(image_count)": generate_image, then
\* upload_generated_image; an exception of generate_image is caught and
\* reported, a failed upload is reported
GenerateOne(outcome) ==
    /\ pc = "loop"
    /\ i < build_config.output.count
    /\ LET config == build_config
           aspect_ratio == map_platform_preset_to_aspect_ratio(config.meta.platform_preset)
           batch_variety == config.output.batch_variety
       IN  /\ gen_calls' = Append(gen_calls,
                  [prompt |-> prompt,
                   image_parts |-> image_parts,
                   aspect_ratio |-> aspect_ratio,
                   batch_index |-> i,
                   batch_variety |-> batch_variety,
                   request |-> request_parts(prompt, image_parts, i, batch_variety)])
           /\ image_parts' = image_parts_after_call(prompt, image_parts, i, batch_variety)
    /\ stored' = IF outcome = "generation_error" THEN stored ELSE Append(stored, i)
    /\ generated_images' = images_after(generated_images, i, outcome)
    /\ errors' =
          CASE outcome = "ok" -> errors
            [] outcome = "upload_failed" ->
                 Append(errors, [kind |-> "upload", index |-> i + 1])
            [] outcome = "generation_error" ->
                 Append(errors, [kind |-> "generation", index |-> i + 1])
    /\ IF loop_continues(outcome)
       THEN i' = i + 1 /\ pc' = pc
       ELSE i' = i /\ pc' = "done"
    /\ outcomes' = Append(outcomes, outcome)
    /\ UNCHANGED <<session, image_mapping, prompt, fetched, failed_fetches, calls>>

\* the loop is over: the results are displayed
Finish ==
    /\ pc = "loop"
    /\ i >= build_config.output.count
    /\ pc' = "done"
    /\ UNCHANGED <<session, image_parts, image_mapping, prompt, i, fetched,
                   failed_fetches, gen_calls, stored, generated_images, errors,
                   outcomes, calls>>

Outcomes == {"ok", "generation_error", "upload_failed"}

Next ==
    \/ \E k \in SectionKeys, t \in Texts : SetText(k, t)
    \/ \E k \in UrlKeys, success \in BOOLEAN : handle_image_upload(k, success)
    \/ \E k \in JewelryKeys : SetEnabled(k)
    \/ \E f \in DOMAIN OptionValues : \E v \in OptionValues[f] : SetOption(f, v)
    \/ \E item_type \in ItemTypes, t \in Texts :
          AddItem(item_type, t) /\ UNCHANGED added_at
    \/ \E idx \in 0..(MaxItems - 1) : RemoveItem(idx)
    \/ GenerateClicked
    \/ /\ pc = "prepare"
       /\ \E failed \in SUBSET ReferenceLabels(build_config) : PrepareImages(failed)
    \/ \E outcome \in Outcomes : GenerateOne(outcome)
    \/ Finish

Spec == Init /\ [][Next]_vars

\* the steps of the Generate handler alone: the form is left as it is
NextRun ==
    \/ GenerateClicked
    \/ /\ pc = "prepare"
       /\ \E failed \in SUBSET ReferenceLabels(build_config) : PrepareImages(failed)
    \/ \E outcome \in Outcomes : GenerateOne(outcome)
    \/ Finish

(***************************************************************************)
(* determine_method on its own: the arguments are drawn from the strings   *)
(* and None, the call stores its result.                                   *)
(***************************************************************************)
ResolveTexts == {None, "", Blank, "red silk dress"}
ResolveImages == {None, "", " ", public_url("outfit", 1)}
ResolveDefaults == {"auto", "none", "text_description", "image_reference"}

InitResolve ==
    /\ InitSession
    /\ InitRun
    /\ dm \in [text : ResolveTexts, image_url : ResolveImages,
               default : ResolveDefaults, result : {None}]
    /\ gi = NoGenerate
    /\ ar = NoReading

Resolve ==
    /\ dm.result = None
    /\ dm' = [dm EXCEPT !.result = determine_method(dm.text, dm.image_url, dm.default)]
    /\ UNCHANGED <<session, run, gi, ar>>

SpecResolve == InitResolve /\ [][Resolve]_vars

(***************************************************************************)
(* A session the user has already filled in: the form is as the widget     *)
(* interactions above leave it after more edits than MaxFilled allows the  *)
(* model to follow one by one.  A fresh session is among them.  From such *)
(* a session the Generate handler is followed.                             *)
(***************************************************************************)
\* the session keys of the stored URLs, in the order of the tabs
UploadedKeys(url) ==
    LET Stored(k) == url[k] # ""
    IN  SelectSeq(<<"model_ref", "outfit", "new_item", "jewelry_neck", "jewelry_ears",
                    "jewelry_hands", "environment", "pose", "hair">>, Stored)

\* every plain section is empty, has a text or has an uploaded image
PlainFilled ==
    /\ \E filled \in [PlainSections -> {"empty", "text", "image"}] :
          /\ ss_text = [k \in SectionKeys |->
                           IF k \in PlainSections /\ filled[k] = "text"
                           THEN "red silk dress" ELSE ""]
          /\ ss_url = [k \in UrlKeys |->
                          IF k \in PlainSections /\ filled[k] = "image"
                          THEN public_url(ImageTypeOf(k), 1) ELSE ""]
    /\ ss_enabled = [k \in JewelryKeys |-> FALSE]
    /\ ss_opt = FreshOpt

\* a model text, and every jewelry location disabled or enabled, with or
\* without a text (an enabled location only) and an uploaded image
JewelryFilled ==
    /\ \E enabled \in [JewelryKeys -> BOOLEAN], with_text \in [JewelryKeys -> BOOLEAN],
          with_image \in [JewelryKeys -> BOOLEAN] :
          /\ \A k \in JewelryKeys : with_text[k] => enabled[k]
          /\ ss_enabled = enabled
          /\ ss_text = [k \in SectionKeys |->
                           IF k = "model_ref" THEN "red silk dress"
                           ELSE IF k \in JewelryKeys /\ with_text[k] THEN "gold chain"
                           ELSE ""]
          /\ ss_url = [k \in UrlKeys |->
                          IF k \in JewelryKeys /\ with_image[k]
                          THEN public_url(ImageTypeOf(k), 1) ELSE ""]
    /\ ss_opt = FreshOpt

\* a model image, an outfit text, three outputs at dynamic angles
BatchFilled ==
    /\ ss_text = [k \in SectionKeys |-> IF k = "outfit" THEN "red silk dress" ELSE ""]
    /\ ss_url = [k \in UrlKeys |->
                    IF k = "model_ref" THEN public_url("model_ref", 1) ELSE ""]
    /\ ss_enabled = [k \in JewelryKeys |-> FALSE]
    /\ ss_opt = [FreshOpt EXCEPT !.image_count = 3, !.batch_variety = "Dynamic Angles"]

InitFilled ==
    /\ PlainFilled \/ JewelryFilled \/ BatchFilled
    /\ additional_items = <<>>
    /\ url_order = UploadedKeys(ss_url)
    /\ item_uploads = 0
    /\ added_at = 0
    /\ InitRun
    /\ dm = NoCall
    /\ gi = NoGenerate
    /\ ar = NoReading

SpecFilled == InitFilled /\ [][NextRun]_vars

(***************************************************************************)
(* Sessions whose Accessories tab has been used: a model text, and a list  *)
(* of additional items as Add Item leaves it.  new_item_url is only ever   *)
(* replaced by a later upload, so the uploads the items carry never step   *)
(* back along the list: no upload yet (0), then the first, the second, ... *)
(***************************************************************************)
ItemTexts == {"", "black leather"}

\* the image_url of an item added after n uploads in the Accessories tab
item_url(n) == IF n = 0 THEN "" ELSE public_url("item", n)

ItemsFilled ==
    \E n \in 0..MaxItems :
        \E types \in [1..n -> ItemTypes], texts \in [1..n -> ItemTexts],
           uploads \in [1..n -> 0..MaxUploads] :
            /\ \A k \in 1..(n - 1) : uploads[k] <= uploads[k + 1]
            /\ additional_items = [k \in 1..n |->
                                      [type |-> lower(types[k]),
                                       text |-> texts[k],
                                       image_url |-> item_url(uploads[k])]]
            /\ item_uploads = IF n = 0 THEN 0 ELSE uploads[n]
            /\ ss_url = [k \in UrlKeys |->
                            IF k = "new_item" THEN item_url(item_uploads) ELSE ""]

InitItems ==
    /\ ItemsFilled
    /\ added_at = 0
    /\ ss_text = [k \in SectionKeys |-> IF k = "model_ref" THEN "red silk dress" ELSE ""]
    /\ ss_enabled = [k \in JewelryKeys |-> FALSE]
    /\ ss_opt = FreshOpt
    /\ url_order = UploadedKeys(ss_url)
    /\ InitRun
    /\ dm = NoCall
    /\ gi = NoGenerate
    /\ ar = NoReading

SpecItems == InitItems /\ [][NextRun]_vars

(***************************************************************************)
(* Sessions whose plain sections carry a text, an uploaded image, both or  *)
(* neither, every section with a text of its own: the model reference and  *)
(* the outfit, or, next to a model text, the environment with its          *)
(* category, the pose and the hair.                                        *)
(***************************************************************************)
SectionText(k) ==
    CASE k = "model_ref" -> "red silk dress"
      [] k = "outfit" -> "linen summer suit"
      [] k = "environment" -> "sunny beach"
      [] k = "pose" -> "hands on hips"
      [] k = "hair" -> "long wavy hair"

SectionsFilled ==
    \E with_text \in [PlainSections -> BOOLEAN], with_image \in [PlainSections -> BOOLEAN],
       env_category \in OptionValues.env_category :
        /\ \/ /\ with_text["model_ref"] /\ ~with_image["model_ref"]
              /\ ~with_text["outfit"] /\ ~with_image["outfit"]
           \/ /\ \A k \in {"environment", "pose", "hair"} :
                    ~with_text[k] /\ ~with_image[k]
              /\ env_category = FreshOpt.env_category
        /\ ss_text = [k \in SectionKeys |->
                         IF k \in PlainSections /\ with_text[k]
                         THEN SectionText(k) ELSE ""]
        /\ ss_url = [k \in UrlKeys |->
                        IF k \in PlainSections /\ with_image[k]
                        THEN public_url(ImageTypeOf(k), 1) ELSE ""]
        /\ ss_opt = [FreshOpt EXCEPT !.env_category = env_category]

InitSections ==
    /\ SectionsFilled
    /\ ss_enabled = [k \in JewelryKeys |-> FALSE]
    /\ additional_items = <<>>
    /\ url_order = UploadedKeys(ss_url)
    /\ item_uploads = 0
    /\ added_at = 0
    /\ InitRun
    /\ dm = NoCall
    /\ gi = NoGenerate
    /\ ar = NoReading

SpecSections == InitSections /\ [][NextRun]_vars

(***************************************************************************)
(* The Accessories tab on its own (src/app.py, "with tab3:"): uploads of   *)
(* an item image, Add Item and Remove, from a session in which only this   *)
(* tab was used and Add Item was pressed last.  added_at keeps, as         *)
(* history, how many item images had been uploaded when Add Item was last  *)
(* pressed.                                                                *)
(***************************************************************************)
InitAccessories ==
    /\ ItemsFilled
    /\ added_at = item_uploads
    /\ ss_text = [k \in SectionKeys |-> ""]
    /\ ss_enabled = [k \in JewelryKeys |-> FALSE]
    /\ ss_opt = FreshOpt
    /\ url_order = UploadedKeys(ss_url)
    /\ InitRun
    /\ dm = NoCall
    /\ gi = NoGenerate
    /\ ar = NoReading

NextAccessories ==
    \/ \E success \in BOOLEAN : handle_image_upload("new_item", success)
    \/ \E item_type \in ItemTypes, t \in Texts :
          AddItem(item_type, t) /\ added_at' = item_uploads
    \/ \E idx \in 0..(MaxItems - 1) : RemoveItem(idx)

SpecAccessories == InitAccessories /\ [][NextAccessories]_vars

(***************************************************************************)
(* generate_image on its own (src/gemini_client.py): a call with its       *)
(* arguments, the request it sends, the upstream response and what the     *)
(* call gives back to its caller.                                          *)
(***************************************************************************)
\* the largest batch_index of a call followed on its own
MaxIndex == 21

\* bool(d) for a dict or a list: it is not empty
NonEmpty(d) == DOMAIN d # {}

\* mimeType.startswith("image/") on the MIME types of the model
startswith_image(mime_type) == mime_type \in {"image/png", "image/jpeg"}

\* base64.b64decode(data): characters outside the alphabet are discarded, a
\* wrong padding raises binascii.Error
b64decode(data) ==
    CASE data = "aGVsbG8=" -> [raised |-> FALSE, bytes |-> "hello"]
      [] data = "aGk=" -> [raised |-> FALSE, bytes |-> "hi"]
      [] data = " " -> [raised |-> FALSE, bytes |-> ""]
      [] data = "aGVsbG8" -> [raised |-> TRUE, bytes |-> ""]
      [] OTHER -> [raised |-> FALSE, bytes |-> ""]

Raise(error, message) == [kind |-> "raise", error |-> error, message |-> message]
Return(image_bytes, mime_type) ==
    [kind |-> "return", image_bytes |-> image_bytes, mime_type |-> mime_type]

\* the content parts an upstream response is made of in the model
ResponseParts ==
    <<[text |-> "Here is your image"],
      [inlineData |-> [mimeType |-> "image/png", data |-> "aGVsbG8="]],
      [inlineData |-> [mimeType |-> "image/jpeg", data |-> "aGk="]],
      [inlineData |-> [mimeType |-> "image/png", data |-> ""]],
      [inlineData |-> [mimeType |-> "image/png", data |-> " "]],
      [inlineData |-> [mimeType |-> "image/png"]],
      [inlineData |-> [data |-> "aGVsbG8="]],
      [inlineData |-> [mimeType |-> "application/pdf", data |-> "aGVsbG8="]],
      [inlineData |-> [mimeType |-> "image/png", data |-> "aGVsbG8"]],
      [inlineData |-> <<>>]>>

\* a response with one candidate whose content has the given parts
WithParts(parts) == [candidates |-> <<[content |-> [parts |-> parts]]>>]

\* the upstream responses without content parts
BareResponses ==
    <<<<>>,
      [candidates |-> <<>>],
      [candidates |-> << <<>> >>],
      [candidates |-> <<[finishReason |-> "SAFETY"]>>],
      [candidates |-> <<[content |-> <<>>]>>],
      [candidates |-> <<[content |-> [role |-> "model"]]>>],
      WithParts(<<>>)>>

\* generate_image from response_data on: the extraction of the image
parse_response(response_data) ==
    LET candidates == Get(response_data, "candidates", <<>>)
    IN  IF ~NonEmpty(candidates) \/ ~NonEmpty(candidates[1])
        THEN Raise("ValueError", "Invalid response format: no candidates found")
        ELSE LET candidate == candidates[1]
                 content == Get(candidate, "content", <<>>)
             IN  IF ~NonEmpty(content) \/ ~NonEmpty(Get(content, "parts", <<>>))
                 THEN Raise("ValueError",
                            "Invalid response format: no content parts found")
                 ELSE LET IsImage(part) ==
                              /\ NonEmpty(Get(part, "inlineData", <<>>))
                              /\ startswith_image(Get(part.inlineData, "mimeType", ""))
                          found == SelectSeq(content.parts, IsImage)
                      IN  IF found = <<>>
                             \/ ~Truthy(Get(found[1].inlineData, "data", ""))
                          THEN Raise("ValueError",
                                     "No image data found in Gemini response")
                          ELSE LET decoded == b64decode(found[1].inlineData.data)
                               IN  IF decoded.raised
                                   THEN Raise("binascii.Error", "Incorrect padding")
                                   ELSE Return(decoded.bytes,
                                               found[1].inlineData.mimeType)

\* the base prompts and part lists of the calls followed on their own
CallPrompts == {<<"Outfit: ", "red silk dress", ".">>, build_quality_boost}
CallParts == {<<>>, <<TextPart(ModelRefText), InlinePart(public_url("model_ref", 1))>>}

InitGenerate ==
    /\ InitSession
    /\ InitRun
    /\ dm = NoCall
    /\ ar = NoReading
    /\ \E p \in CallPrompts, parts \in CallParts, batch_index \in 0..MaxIndex,
          batch_variety \in {"dynamic_angles", "subtle_variations", None} :
          gi = [step |-> "called", prompt |-> p, image_parts |-> parts,
                batch_index |-> batch_index, batch_variety |-> batch_variety,
                request |-> <<>>, response |-> <<>>, result |-> [kind |-> "none"]]

\* the request is built and posted
SendRequest ==
    /\ gi.step = "called"
    /\ gi' = [gi EXCEPT !.step = "sent",
                        !.request = request_parts(gi.prompt, gi.image_parts,
                                                  gi.batch_index, gi.batch_variety)]
    /\ UNCHANGED <<session, run, dm, ar>>

\* the post returns: raise_for_status, then the extraction of the image
ReceiveResponse(http_ok, response_data) ==
    /\ gi.step = "sent"
    /\ gi' = [gi EXCEPT !.step = "returned",
                        !.response = IF http_ok THEN response_data ELSE <<>>,
                        !.result = IF http_ok THEN parse_response(response_data)
                                   ELSE Raise("HTTPError", "500 Server Error")]
    /\ UNCHANGED <<session, run, dm, ar>>

GenerateNext ==
    \/ SendRequest
    \/ \E j \in 1..Len(BareResponses) : ReceiveResponse(TRUE, BareResponses[j])
    \/ \E j, k \in 1..Len(ResponseParts) :
          \/ ReceiveResponse(TRUE, WithParts(<<ResponseParts[j]>>))
          \/ ReceiveResponse(TRUE, WithParts(<<ResponseParts[j], ResponseParts[k]>>))
    \/ ReceiveResponse(FALSE, <<>>)

SpecGenerate == InitGenerate /\ [][GenerateNext]_vars

(***************************************************************************)
(* The handler's reading of the output settings of a configuration         *)
(* (src/app.py, "Get aspect ratio" and "Generate images"), on its own: the *)
(* platform preset is any string, also one build_config never produces.    *)
(***************************************************************************)
\* the number input "Count" takes 1 to 10
MinImageCount == 1
MaxImageCount == 10

\* the presets of the lookup, the labels of the select box, other strings
PlatformPresets ==
    {"instagram_portrait", "instagram_story", "instagram_square", "default",
     "Instagram Portrait (4:5)", "Instagram Story (9:16)", "INSTAGRAM_PORTRAIT",
     "instagram_landscape", "4:5", " default", "", None}

InitReading ==
    /\ InitSession
    /\ InitRun
    /\ dm = NoCall
    /\ gi = NoGenerate
    /\ \E platform_preset \in PlatformPresets, count \in MinImageCount..MaxImageCount,
          batch_variety \in {"subtle_variations", "dynamic_angles"} :
          ar = [step |-> "config",
                config |-> [meta |-> [platform_preset |-> platform_preset],
                            output |-> [count |-> count,
                                        batch_variety |-> batch_variety]],
                aspect_ratio |-> None, image_count |-> 0, batch_variety |-> None]

\* aspect_ratio, image_count and batch_variety are read from the config
ReadOutputSettings ==
    /\ ar.step = "config"
    /\ ar' = [ar EXCEPT
                 !.step = "read",
                 !.aspect_ratio =
                     map_platform_preset_to_aspect_ratio(ar.config.meta.platform_preset),
                 !.image_count = ar.config.output.count,
                 !.batch_variety = ar.config.output.batch_variety]
    /\ UNCHANGED <<session, run, dm, gi>>

SpecReading == InitReading /\ [][ReadOutputSettings]_vars

(***************************************************************************)
(* What the claims talk about.                                             *)
(***************************************************************************)
\* prepare_image_parts has returned to the handler
Assembled == pc \in {"loop", "done"}

\* seq holds the pieces of frag next to each other, in order
Contains(seq, frag) ==
    \E o \in 0..(Len(seq) - Len(frag)) : SubSeq(seq, o + 1, o + Len(frag)) = frag

\* the label keys in the fixed section order: model reference, base outfit,
\* additional items in list order, neck, ears, hands/wrists, environment,
\* pose, hair
SectionOrder(config) ==
    <<"model_ref", "outfit">>
    \o [k \in 1..Len(config.additional_items) |-> item_label(k - 1)]
    \o <<"jewelry_neck", "jewelry_ears", "jewelry_hands", "environment", "pose", "hair">>

ItemOf(config, label) ==
    config.additional_items[CHOOSE k \in 1..Len(config.additional_items) :
                                item_label(k - 1) = label]

\* the record of the configuration a label key stands for
SectionOf(config, label) ==
    CASE label = "model_ref" -> config.model_reference
      [] label = "outfit" -> config.base_outfit
      [] label = "jewelry_neck" -> config.jewelry.neck
      [] label = "jewelry_ears" -> config.jewelry.ears
      [] label = "jewelry_hands" -> config.jewelry.hands_wrists
      [] label = "environment" -> config.environment
      [] label = "pose" -> config.photography.pose
      [] label = "hair" -> config.photography.hair
      [] OTHER -> ItemOf(config, label)

\* the section is one the assembler considers and it carries an image URL
CarriesImage(config, label) ==
    /\ Truthy(SectionOf(config, label).image_url)
    /\ label \in {"jewelry_neck", "jewelry_ears", "jewelry_hands"}
          => SectionOf(config, label).enabled

\* the instructional text that states the role of a section's image
RoleText(config, label) ==
    CASE label = "model_ref" -> ModelRefText
      [] label = "outfit" -> OutfitText
      [] label = "jewelry_neck" -> NeckText
      [] label = "jewelry_ears" -> EarsText
      [] label = "jewelry_hands" -> HandsText
      [] label = "environment" -> EnvironmentText
      [] label = "pose" -> PoseText
      [] label = "hair" -> HairText
      [] OTHER -> ItemText(ItemOf(config, label).type)

\* the section's text part directly followed by its image part is in parts
Contributed(config, label, parts) ==
    \E j \in 2..Len(parts) :
        /\ IsImagePart(parts[j])
        /\ parts[j] = InlinePart(SectionOf(config, label).image_url)
        /\ parts[j - 1] = TextPart(RoleText(config, label))

ImageParts(parts) == SelectSeq(parts, IsImagePart)
TextParts(parts) == SelectSeq(parts, IsTextPart)

Range(seq) == {seq[j] : j \in DOMAIN seq}

(***************************************************************************)
(* C1: in prepare_image_parts a label key is in the returned mapping if    *)
(* and only if its section contributed an inline-image part to the         *)
(* returned sequence, and there are as many labels as inline-image parts,  *)
(* for every configuration and every pattern of fetch failures.            *)
(***************************************************************************)
C1_LabelsMatchImageParts ==
    Assembled =>
        /\ \A label \in Range(SectionOrder(build_config)) :
              label \in DOMAIN image_mapping
                 <=> Contributed(build_config, label, image_parts)
        /\ Cardinality(DOMAIN image_mapping) = Len(ImageParts(image_parts))

(***************************************************************************)
(* C2: determine_method is total and follows the precedence table: both    *)
(* present -> text_and_image, text only -> text_description, image only -> *)
(* image_reference, neither -> the caller's default.  A text or an image   *)
(* is present when it is a string with a non-whitespace character.         *)
(***************************************************************************)
Present(v) == v \notin ({None, ""} \cup WhitespaceOnly)

C2_ResolveTable ==
    dm.result # None =>
        dm.result =
            CASE Present(dm.text) /\ Present(dm.image_url) -> "text_and_image"
              [] Present(dm.text) /\ ~Present(dm.image_url) -> "text_description"
              [] ~Present(dm.text) /\ Present(dm.image_url) -> "image_reference"
              [] ~Present(dm.text) /\ ~Present(dm.image_url) -> dm.default

\* a call with a whitespace-only text and an image returned image_reference
C2_Witness ==
    /\ dm.text = Blank
    /\ dm.image_url = public_url("outfit", 1)
    /\ dm.result = "image_reference"

(***************************************************************************)
(* C3: for environment, pose and hair, whenever the section of a           *)
(* configuration built by build_config carries an image reference, the     *)
(* composed prompt contains that section's extraction directive, referring *)
(* to that section's label.                                                *)
(***************************************************************************)
C3_ImageSectionsGetExtraction ==
    Assembled =>
        LET config == build_config
        IN  /\ Truthy(config.environment.image_url) =>
                  Contains(prompt, EnvironmentExtraction(
                      Get(image_mapping, "environment", EnvironmentDescription)))
            /\ Truthy(config.photography.pose.image_url) =>
                  Contains(prompt, PoseExtraction(
                      Get(image_mapping, "pose", PoseDescription),
                      config.photography.pose.strength))
            /\ Truthy(config.photography.hair.image_url) =>
                  Contains(prompt, HairExtraction(
                      Get(image_mapping, "hair", HairDescription)))

(***************************************************************************)
(* C4: when the fetch of a section's image fails during                    *)
(* prepare_image_parts the assembly does not abort, and every other        *)
(* section with an image URL contributes the same text part, image part    *)
(* and label it contributes when no fetch fails, in the same relative      *)
(* order.                                                                  *)
(***************************************************************************)
\* the (text part, image part) pairs of parts, from position j on
RECURSIVE PairsFrom(_, _)
PairsFrom(parts, j) ==
    IF j > Len(parts) THEN <<>>
    ELSE IF j >= 2 /\ IsImagePart(parts[j]) /\ IsTextPart(parts[j - 1])
    THEN << <<parts[j - 1], parts[j]>> >> \o PairsFrom(parts, j + 1)
    ELSE PairsFrom(parts, j + 1)

\* the pairs of the failure-free assembly r0 whose label is not in failed,
\* from the k-th label on
RECURSIVE KeptPairs(_, _, _)
KeptPairs(r0, k, failed) ==
    IF k > Len(r0.labels) THEN <<>>
    ELSE IF r0.labels[k] \in failed THEN KeptPairs(r0, k + 1, failed)
    ELSE << <<r0.parts[2 * k - 1], r0.parts[2 * k]>> >> \o KeptPairs(r0, k + 1, failed)

C4_FetchFailureSparesOthers ==
    /\ \A j \in 1..Len(errors) : errors[j].kind # "prepare"
    /\ Assembled =>
          LET r0 == prepare_image_parts(build_config, {})
          IN  /\ PairsFrom(image_parts, 1) = KeptPairs(r0, 1, failed_fetches)
              /\ \A label \in Range(r0.labels) \ failed_fetches :
                    /\ label \in DOMAIN image_mapping
                    /\ image_mapping[label] = r0.image_mapping[label]

\* one fetch failed and another section still contributed its image
C4_Witness ==
    /\ Assembled
    /\ failed_fetches # {}
    /\ Len(ImageParts(image_parts)) >= 1
    /\ DOMAIN image_mapping \ failed_fetches # {}

(***************************************************************************)
(* C5: in the sequence prepare_image_parts returns, every inline-image     *)
(* part is immediately preceded by the instructional-text part that        *)
(* describes that image's role, under every pattern of fetch failures.     *)
(***************************************************************************)
C5_ImagePrecededByRoleText ==
    Assembled =>
        \A j \in 1..Len(image_parts) :
            IsImagePart(image_parts[j]) =>
                /\ j >= 2
                /\ IsTextPart(image_parts[j - 1])
                /\ \E label \in Range(SectionOrder(build_config)) :
                      /\ CarriesImage(build_config, label)
                      /\ image_parts[j] =
                            InlinePart(SectionOf(build_config, label).image_url)
                      /\ image_parts[j - 1] = TextPart(RoleText(build_config, label))

\* an image part that follows the text part of a section whose fetch failed
\* and its own text part
C5_Witness ==
    /\ Assembled
    /\ Len(image_parts) = 3
    /\ IsTextPart(image_parts[1])
    /\ IsTextPart(image_parts[2])
    /\ IsImagePart(image_parts[3])

OnlyOutfitText ==
    /\ ss_text = [k \in SectionKeys |-> IF k = "outfit" THEN "red silk dress" ELSE ""]
    /\ ss_url = [k \in UrlKeys |-> ""]
    /\ additional_items = <<>>
    /\ ss_opt.image_count = 1

C7_OutfitTextOnlyRejected ==
    OnlyOutfitText =>
        /\ pc \in {"form", "prepare", "stopped"}
        /\ prompt = <<>>
        /\ gen_calls = <<>>

(***************************************************************************)
(* C7 amended: such a configuration passes the validation, which asks for  *)
(* a model reference or an outfit: the prompt is composed with the outfit  *)
(* text and the one generation call, for index 0, is made.                 *)
(***************************************************************************)
C7_OutfitTextOnlyAccepted ==
    (OnlyOutfitText /\ pc # "form") =>
        /\ pc # "stopped"
        /\ errors = <<>> \/ errors[1].kind # "validation"
        /\ Assembled => Contains(prompt, <<"Outfit: ", "red silk dress", ".">>)
        /\ pc = "done" =>
              /\ Len(gen_calls) = 1
              /\ gen_calls[1].batch_index = 0

C7_Witness ==
    /\ OnlyOutfitText
    /\ pc = "done"
    /\ Len(gen_calls) = 1
    /\ Contains(gen_calls[1].prompt, <<"Outfit: ", "red silk dress", ".">>)

(***************************************************************************)
(* C8: when model reference and base outfit each have neither a text the   *)
(* method resolver counts as present nor an image URL, a click on Generate *)
(* blocks the run before any network call: no reference fetch, no          *)
(* generation call and no storage upload happens in that run.              *)
(***************************************************************************)
IdentitySectionsEmpty ==
    /\ ~Present(ss_text["model_ref"]) /\ ~Present(ss_url["model_ref"])
    /\ ~Present(ss_text["outfit"]) /\ ~Present(ss_url["outfit"])

C8_EmptyIdentityBlocksRun ==
    IdentitySectionsEmpty =>
        /\ fetched = <<>>
        /\ gen_calls = <<>>
        /\ stored = <<>>

(***************************************************************************)
(* C9: in a run with output count N the generation capability is invoked   *)
(* exactly once for each batch_index 0..N-1, in increasing order; a        *)
(* generation error or a storage failure at one index never prevents the   *)
(* invocations for the later indices.                                      *)
(***************************************************************************)
C9_OneCallPerIndex ==
    /\ \A j \in 1..Len(gen_calls) : gen_calls[j].batch_index = j - 1
    /\ pc = "loop" => Len(gen_calls) = i
    /\ pc = "done" => Len(gen_calls) = ss_opt.image_count

\* the first output failed to generate, the second failed to upload, and
\* both calls were made
C9_Witness ==
    /\ pc = "done"
    /\ Len(gen_calls) = 2
    /\ Len(errors) = 2
    /\ errors[1] = [kind |-> "generation", index |-> 1]
    /\ errors[2] = [kind |-> "upload", index |-> 2]

(***************************************************************************)
(* C10: the image parts and the label mapping are built once per run,      *)
(* before the first generation call, and no generation call or upload      *)
(* changes them: every generation call of the run receives the same parts  *)
(* in the same order.                                                      *)
(***************************************************************************)
C10_PartsSharedUnchanged ==
    /\ ~Assembled => gen_calls = <<>>
    /\ Assembled =>
          LET built == prepare_image_parts(build_config, failed_fetches)
          IN  /\ image_parts = built.parts
              /\ image_mapping = built.image_mapping
              /\ fetched = built.fetched
              /\ \A j \in 1..Len(gen_calls) :
                    /\ gen_calls[j].image_parts = built.parts
                    /\ Tail(gen_calls[j].request) = built.parts

\* two generation calls were made with a non-empty part sequence, the first
\* output was stored
C10_Witness ==
    /\ pc = "done"
    /\ Len(gen_calls) = 2
    /\ Len(image_parts) >= 2
    /\ Len(generated_images) >= 1

(***************************************************************************)
(* C11: for every batch_index i >= 0 and base prompt p, generate_image     *)
(* sends the dynamic-angle phrase at i mod 10, then ". ", then p when      *)
(* batch_variety is dynamic_angles, and the subtle-variation phrase at     *)
(* i mod 5, then ". ", then p when it is subtle_variations: the phrase is  *)
(* a prefix, and equal i mod length select the same phrase.                *)
(***************************************************************************)
C11_VariationPrefixed ==
    gi.step \in {"sent", "returned"} =>
        LET sent == gi.request[1].text
            n == gi.batch_index
        IN  /\ gi.batch_variety = "dynamic_angles" =>
                  /\ sent = <<DynamicAngles[(n % 10) + 1], ". ">> \o gi.prompt
                  /\ sent = final_prompt(gi.prompt, n % 10, gi.batch_variety)
            /\ gi.batch_variety = "subtle_variations" =>
                  /\ sent = <<SubtleVariations[(n % 5) + 1], ". ">> \o gi.prompt
                  /\ sent = final_prompt(gi.prompt, n % 5, gi.batch_variety)

\* the call for index 13 sent the phrase of index 3 in front of the prompt
C11_Witness ==
    /\ gi.step = "sent"
    /\ gi.batch_index = 13
    /\ gi.batch_variety = "dynamic_angles"
    /\ gi.request[1].text = <<"Varied perspective", ". ">> \o gi.prompt

(***************************************************************************)
(* C12: the batch consistency directive is a fragment of the prompt        *)
(* build_photoshoot_prompt composes if and only if the requested output    *)
(* count is greater than 1; it never appears for count = 1, and when it    *)
(* appears it is the first fragment.                                       *)
(***************************************************************************)
C12_ConsistencyIffBatch ==
    Assembled =>
        LET count == build_config.output.count
        IN  /\ Contains(prompt, ConsistencyDirective) <=> count > 1
            /\ count = 1 => ~Contains(prompt, ConsistencyDirective)
            /\ count > 1 => SubSeq(prompt, 1, 1) = ConsistencyDirective
            /\ \A j \in 2..Len(prompt) : prompt[j] # ConsistencyDirective[1]

\* a run for one output whose prompt starts with the model fragment
C12_Witness ==
    /\ Assembled
    /\ build_config.output.count = 1
    /\ prompt[1] = "Model appearance: "
    /\ ~Contains(prompt, ConsistencyDirective)

(***************************************************************************)
(* C13: for every configuration the fragments of the composed prompt are   *)
(* in the order consistency directive, model reference, outfit, additional *)
(* items, jewelry, environment, photography (style, then pose, then hair), *)
(* and the quality-enhancement clause is always present and always the     *)
(* last fragment, whatever sections are absent or empty.                   *)
(***************************************************************************)
\* the place in that order of the fragment a piece opens; -1 for a piece
\* that opens no fragment
FragmentRank(piece) ==
    CASE piece = ConsistencyDirective[1] -> 0
      [] piece \in {"Model appearance: ",
                    "CRITICAL: Extract and use the EXACT same face from ",
                    "CRITICAL: Extract and use the EXACT same face from the model reference image. The face features must match exactly. Also extract the body figure and proportions. IGNORE the background, clothing, outfit, accessories, and any other elements.",
                    "Generate a new model with the following characteristics: ",
                    "Generate a new model face.",
                    "IMPORTANT: The model reference image should ONLY be used to extract the face and body figure. Do not use any other elements from that image."}
           -> 1
      [] piece \in {"CRITICAL REQUIREMENT: Extract ONLY the clothing/outfit from ",
                    "Apply the following outfit as described.", "Outfit: "} -> 2
      [] piece = "Additional items: " -> 3
      [] piece = "Jewelry and accessories: " -> 4
      [] piece \in {"Environment: ", "Background details: ",
                    EnvironmentExtraction(<<>>)[1]} -> 5
      [] piece \in {"Photography style: ", "Shadows: "} -> 6
      [] piece \in {"Pose: ", PoseExtraction(<<>>, 80)[1]} -> 7
      [] piece \in {"Hair styling: ", HairExtraction(<<>>)[1],
                    "Keep the original hairstyle from the reference."} -> 8
      [] piece = build_quality_boost[1] -> 9
      [] OTHER -> -1

\* the places of the fragments of a prompt, in the order they appear
FragmentRanks(p) ==
    LET ranks == [j \in 1..Len(p) |-> FragmentRank(p[j])]
        Opens(r) == r >= 0
    IN  SelectSeq(ranks, Opens)

LocationName(label) ==
    CASE label = "jewelry_neck" -> "neck"
      [] label = "jewelry_ears" -> "ears"
      [] label = "jewelry_hands" -> "hands/wrists"

\* what the label of a location stands for in the mapping
LocationDescription(label) ==
    CASE label = "jewelry_neck" -> NeckDescription
      [] label = "jewelry_ears" -> EarsDescription
      [] label = "jewelry_hands" -> HandsDescription

\* the location's entry with its text and a directive that refers to ref
TextAndExtraction(label, text, ref) ==
    <<LocationName(label), ": ", text, " (extract jewelry from ">> \o ref
    \o <<", ignore person/background)">>

TextAndImage(label) ==
    /\ ss_enabled[label]
    /\ Present(ss_text[label])
    /\ Present(ss_url[label])

C14_JewelryOwnLabel ==
    Assembled =>
        \A label \in JewelryKeys :
            TextAndImage(label) =>
                /\ label \in DOMAIN image_mapping
                /\ image_mapping[label] = LocationDescription(label)
                /\ Contains(prompt, <<"Jewelry and accessories: ">>)
                /\ Contains(prompt, TextAndExtraction(label, ss_text[label],
                                                      image_mapping[label]))
                /\ \A other \in JewelryKeys \ {label} :
                      ~Contains(prompt, TextAndExtraction(label, ss_text[label],
                                                          LocationDescription(other)))
                /\ ~Contains(prompt, <<LocationName(label), ": ", ss_text[label],
                                       " (extract jewelry from ",
                                       "the jewelry reference image">>)

\* neck and ears both have a text and an image; the neck image did not load
C14_Witness ==
    /\ Assembled
    /\ TextAndImage("jewelry_neck")
    /\ TextAndImage("jewelry_ears")
    /\ ~TextAndImage("jewelry_hands")
    /\ "jewelry_neck" \in failed_fetches
    /\ Contains(prompt, TextAndExtraction("jewelry_neck", "gold chain", NeckDescription))

(***************************************************************************)
(* C15: a jewelry location whose enabled flag is not set contributes       *)
(* nothing, whatever its method, text and image URL are: no text part, no  *)
(* image part, no label in the mapping and no fragment in the prompt; an   *)
(* enabled location is considered by both the assembler and the prompt     *)
(* builder.                                                                *)
(***************************************************************************)
C15_DisabledJewelryContributesNothing ==
    Assembled =>
        \A label \in JewelryKeys :
            LET loc == SectionOf(build_config, label)
            IN  /\ ~loc.enabled =>
                      /\ label \notin DOMAIN image_mapping
                      /\ TextPart(RoleText(build_config, label)) \notin Range(image_parts)
                      /\ Truthy(loc.image_url) =>
                            /\ InlinePart(loc.image_url) \notin Range(image_parts)
                            /\ loc.image_url \notin Range(fetched)
                      /\ LocationName(label) \notin Range(prompt)
                /\ (loc.enabled /\ Truthy(loc.image_url)) =>
                      /\ label \in DOMAIN image_mapping
                      /\ TextPart(RoleText(build_config, label)) \in Range(image_parts)
                      /\ loc.image_url \in Range(fetched)
                /\ (loc.enabled /\ loc.method # "none") =>
                      LocationName(label) \in Range(prompt)

\* a disabled neck location that kept its uploaded image next to an enabled
\* ears location whose image is among the parts
C15_Witness ==
    /\ Assembled
    /\ ~ss_enabled["jewelry_neck"]
    /\ ss_url["jewelry_neck"] # ""
    /\ ss_enabled["jewelry_ears"]
    /\ InlinePart(ss_url["jewelry_ears"]) \in Range(image_parts)
    /\ "ears" \in Range(prompt)

(***************************************************************************)
(* C16: the model-identity fragments take exactly one of two branches:     *)
(* with face_action = keep they contain the extraction directive that      *)
(* refers to the model image and no generate-new-model sentence; with      *)
(* face_action = generate they contain exactly one generate sentence (the  *)
(* new-model description, or the generic fallback when there is none) and  *)
(* no keep-face extraction directive.                                      *)
(***************************************************************************)
\* the pieces that open a keep-face directive and a generate sentence
KeepFacePieces ==
    {"CRITICAL: Extract and use the EXACT same face from ",
     "CRITICAL: Extract and use the EXACT same face from the model reference image. The face features must match exactly. Also extract the body figure and proportions. IGNORE the background, clothing, outfit, accessories, and any other elements.",
     "IMPORTANT: The model reference image should ONLY be used to extract the face and body figure. Do not use any other elements from that image."}
GeneratePieces ==
    {"Generate a new model with the following characteristics: ",
     "Generate a new model face."}

\* how many pieces of p are in the set pieces
CountPieces(p, pieces) == Cardinality({j \in 1..Len(p) : p[j] \in pieces})

TextOnly(section, text_key) ==
    /\ Present(section[text_key])
    /\ ~Truthy(section.image_url)

\* what C17 says of the sections other than the model reference
C17_OtherSectionsStatedDirectly ==
    Assembled =>
        LET config == build_config
            items == config.additional_items
        IN  /\ TextOnly(config.base_outfit, "text_description") =>
                  /\ Contains(prompt, <<"Outfit: ", config.base_outfit.text_description,
                                        ".">>)
                  /\ "CRITICAL REQUIREMENT: Extract ONLY the clothing/outfit from "
                        \notin Range(prompt)
            /\ \A k \in 1..Len(items) :
                  TextOnly(items[k], "text") =>
                      /\ Contains(prompt, <<items[k].type, ": ", items[k].text>>)
                      /\ item_label(k - 1) \notin DOMAIN image_mapping
            /\ \A label \in JewelryKeys :
                  (SectionOf(config, label).enabled
                   /\ TextOnly(SectionOf(config, label), "text")) =>
                      /\ Contains(prompt, <<LocationName(label), ": ",
                                            SectionOf(config, label).text>>)
                      /\ ~Contains(prompt, <<LocationName(label),
                                             ": extract ONLY the jewelry from ">>)
                      /\ ~Contains(prompt, <<LocationName(label), ": ",
                                             SectionOf(config, label).text,
                                             " (extract jewelry from ">>)
            /\ TextOnly(config.environment, "text_description") =>
                  /\ Contains(prompt, <<"Background details: ",
                                        config.environment.text_description, ".">>)
                  /\ EnvironmentExtraction(<<>>)[1] \notin Range(prompt)
            /\ TextOnly(config.photography.pose, "text") =>
                  /\ Contains(prompt, <<"Pose: ", config.photography.pose.text, ".">>)
                  /\ PoseExtraction(<<>>, 80)[1] \notin Range(prompt)
            /\ TextOnly(config.photography.hair, "text") =>
                  /\ Contains(prompt, <<"Hair styling: ", config.photography.hair.text,
                                        ".">>)
                  /\ HairExtraction(<<>>)[1] \notin Range(prompt)

C17_TextOnlyStatedDirectly ==
    /\ C17_OtherSectionsStatedDirectly
    /\ Assembled =>
          LET model_ref == build_config.model_reference
          IN  TextOnly(model_ref, "text_description") =>
                  /\ Contains(prompt, <<"Model appearance: ",
                                        model_ref.text_description, ".">>)
                  /\ CountPieces(prompt, KeepFacePieces) = 0

(***************************************************************************)
(* C18: generate_image returns (image bytes, MIME type) only when the      *)
(* upstream response holds a candidate with a content part carrying        *)
(* non-empty inline image data of an image/* MIME type; for every          *)
(* malformed response (no candidates, no content parts, no image payload)  *)
(* it signals an error to the caller and never returns a substituted or    *)
(* empty result.                                                           *)
(***************************************************************************)
\* the parts of all candidates of a response
CandidateParts(response_data) ==
    LET candidates == Get(response_data, "candidates", <<>>)
    IN  UNION {Range(Get(Get(candidates[c], "content", <<>>), "parts", <<>>)) :
                  c \in 1..Len(candidates)}

\* a part that carries non-empty inline data of an image MIME type
CarriesImageData(part) ==
    /\ "inlineData" \in DOMAIN part
    /\ startswith_image(Get(part.inlineData, "mimeType", ""))
    /\ Get(part.inlineData, "data", "") # ""

HoldsImage(response_data) ==
    \E part \in CandidateParts(response_data) : CarriesImageData(part)

\* the response has no part that could be an image: the three malformed
\* shapes of the claim
C18_MalformedRaises ==
    (gi.step = "returned" /\ ~HoldsImage(gi.response)) => gi.result.kind = "raise"

C18_ImageOrError ==
    gi.step = "returned" =>
        /\ gi.result.kind \in {"return", "raise"}
        /\ gi.result.kind = "return" =>
              /\ HoldsImage(gi.response)
              /\ startswith_image(gi.result.mime_type)
              /\ gi.result.image_bytes # ""
        /\ ~HoldsImage(gi.response) => gi.result.kind = "raise"

(***************************************************************************)
(* C19: after a batch run the delivered results are exactly the outputs    *)
(* whose generation and upload both succeeded, in increasing index order   *)
(* and each with its own 1-based index; every output whose generation or   *)
(* upload failed produces one error report naming that index, and it       *)
(* removes or changes no successful output.                                *)
(***************************************************************************)
\* the 1-based indices of the outputs so far whose outcome is in kinds
IndicesWith(kinds) ==
    LET Among(j) == outcomes[j] \in kinds
    IN  SelectSeq([j \in 1..Len(outcomes) |-> j], Among)

\* the error reports of the batch loop
BatchErrors ==
    LET OfLoop(e) == e.kind \in {"generation", "upload"}
    IN  SelectSeq(errors, OfLoop)

C19_ResultsAreTheSuccesses ==
    LET delivered == IndicesWith({"ok"})
        failed == IndicesWith({"generation_error", "upload_failed"})
    IN  /\ Len(generated_images) = Len(delivered)
        /\ \A k \in 1..Len(delivered) : generated_images[k].index = delivered[k]
        /\ Len(BatchErrors) = Len(failed)
        /\ \A k \in 1..Len(failed) :
              /\ BatchErrors[k].index = failed[k]
              /\ BatchErrors[k].kind =
                    IF outcomes[failed[k]] = "upload_failed" THEN "upload"
                    ELSE "generation"
        /\ pc = "done" => Len(outcomes) = build_config.output.count

\* the first output was delivered, the second failed
C19_Witness ==
    /\ pc = "done"
    /\ outcomes = <<"ok", "generation_error">>
    /\ Len(generated_images) = 1
    /\ generated_images[1].index = 1
    /\ BatchErrors = <<[kind |-> "generation", index |-> 2]>>

(***************************************************************************)
(* C20: for a configuration whose model reference has only an image URL,   *)
(* whose outfit has only a text, with all jewelry disabled and no other    *)
(* reference, count = 3 and batch_variety = dynamic_angles, in a run in    *)
(* which the model image loads: the assembled parts contain exactly one    *)
(* inline-image part, the mapping has exactly the one key model_ref, and   *)
(* the three per-call prompts begin with the pairwise distinct             *)
(* dynamic-angle phrases at indices 0, 1, 2, each followed by the same     *)
(* base prompt.                                                            *)
(***************************************************************************)
ThreeAnglesScenario ==
    LET config == build_config
    IN  /\ ~Truthy(config.model_reference.text_description)
        /\ Truthy(config.model_reference.image_url)
        /\ Present(config.base_outfit.text_description)
        /\ ~Truthy(config.base_outfit.image_url)
        /\ \A label \in JewelryKeys : ~SectionOf(config, label).enabled
        /\ config.additional_items = <<>>
        /\ \A label \in {"environment", "pose", "hair"} :
              ~Truthy(SectionOf(config, label).image_url)
        /\ config.output.count = 3
        /\ config.output.batch_variety = "dynamic_angles"

C20_ThreeAnglesOneImage ==
    (Assembled /\ ThreeAnglesScenario /\ failed_fetches = {}) =>
        /\ Len(ImageParts(image_parts)) = 1
        /\ ImageParts(image_parts)[1] = InlinePart(ss_url["model_ref"])
        /\ DOMAIN image_mapping = {"model_ref"}
        /\ Len(gen_calls) <= 3
        /\ pc = "done" => Len(gen_calls) = 3
        /\ \A j \in 1..Len(gen_calls) :
              /\ gen_calls[j].batch_index = j - 1
              /\ gen_calls[j].request[1].text
                    = <<DynamicAngles[j], ". ">> \o gen_calls[1].prompt
              /\ \A k \in 1..Len(gen_calls) :
                    j # k => gen_calls[j].request[1].text[1]
                               # gen_calls[k].request[1].text[1]

\* the run of that configuration is over, with its three calls made
C20_Witness ==
    /\ pc = "done"
    /\ ThreeAnglesScenario
    /\ failed_fetches = {}
    /\ Len(gen_calls) = 3
    /\ gen_calls[3].request[1].text[1] = "Alternative composition"
    /\ Len(gen_calls[3].request) = 3

(***************************************************************************)
(* C21: map_platform_preset_to_aspect_ratio is total: instagram_portrait   *)
(* maps to 4:5, instagram_story to 9:16, instagram_square to 1:1, default  *)
(* to 2:3, and every other preset string maps to 2:3 without failing.      *)
(***************************************************************************)
C21_AspectRatioTotal ==
    ar.step = "read" =>
        LET preset == ar.config.meta.platform_preset
        IN  /\ preset = "instagram_portrait" => ar.aspect_ratio = "4:5"
            /\ preset = "instagram_story" => ar.aspect_ratio = "9:16"
            /\ preset = "instagram_square" => ar.aspect_ratio = "1:1"
            /\ preset = "default" => ar.aspect_ratio = "2:3"
            /\ preset \notin {"instagram_portrait", "instagram_story",
                               "instagram_square", "default"}
                  => ar.aspect_ratio = "2:3"
            /\ ar.aspect_ratio \in {"4:5", "9:16", "1:1", "2:3"}

\* the label of the select box, which is no key of the lookup, gave 2:3
C21_Witness ==
    /\ ar.step = "read"
    /\ ar.config.meta.platform_preset = "Instagram Story (9:16)"
    /\ ar.aspect_ratio = "2:3"

(***************************************************************************)
(* C22: every instructional-text part returned by prepare_image_parts is   *)
(* immediately followed by the inline-image part it describes; a section   *)
(* whose fetch fails contributes no part at all, neither text nor image,   *)
(* so there are as many text parts as image parts.                         *)
(***************************************************************************)
C22_TextPartsPairedWithImages ==
    Assembled =>
        /\ \A j \in DOMAIN image_parts :
              IsTextPart(image_parts[j])
                 => /\ j < Len(image_parts)
                    /\ IsImagePart(image_parts[j + 1])
        /\ \A label \in failed_fetches :
              TextPart(RoleText(build_config, label)) \notin Range(image_parts)
                 \/ \E other \in Range(SectionOrder(build_config)) \ failed_fetches :
                       /\ CarriesImage(build_config, other)
                       /\ RoleText(build_config, other) = RoleText(build_config, label)
        /\ Len(TextParts(image_parts)) = Len(ImageParts(image_parts))

\* the additional-items sentence of the prompt tells the generator to extract
\* the item at 0-based position idx from the image registered as item_<idx>
ExtractsItem(idx) ==
    LET item == build_config.additional_items[idx + 1]
    IN  /\ item_label(idx) \in DOMAIN image_mapping
        /\ Contains(prompt, <<item.type, ": extract ONLY the ", item.type, " from ">>
                             \o image_mapping[item_label(idx)])

(***************************************************************************)
(* C23: for every additional item that carries an image URL, also when it  *)
(* carries a text as well, the additional-items sentence of the prompt     *)
(* holds an extraction directive for that item, which refers to the item's *)
(* own label item_<idx>.                                                   *)
(***************************************************************************)
C23_ImageItemsGetExtraction ==
    Assembled =>
        \A k \in 1..Len(build_config.additional_items) :
            Truthy(build_config.additional_items[k].image_url) => ExtractsItem(k - 1)

\* the label keys item_<idx> of the returned mapping
ItemLabels == {item_label(k - 1) : k \in 1..Len(build_config.additional_items)}
                 \cap DOMAIN image_mapping

\* the positions of the items that carry an image URL
ImagePositions ==
    {k \in 1..Len(build_config.additional_items) :
        Truthy(build_config.additional_items[k].image_url)}

C25_SameTypeItemsDistinct ==
    Assembled =>
        \A j, k \in ImagePositions :
            (j # k /\ build_config.additional_items[j].type
                         = build_config.additional_items[k].type)
               => image_mapping[item_label(j - 1)] # image_mapping[item_label(k - 1)]

\* the jewelry locations in the order neck, ears, hands/wrists
LocationOrder == <<"jewelry_neck", "jewelry_ears", "jewelry_hands">>

\* the names of the locations the jewelry sentences of p list, in order
ListedLocations(p) ==
    LET OpensEntry(j) ==
            /\ p[j] \in {"neck", "ears", "hands/wrists"}
            /\ j < Len(p)
            /\ p[j + 1] \in {": ", ": extract ONLY the jewelry from "}
        at == SelectSeq([j \in 1..Len(p) |-> j], OpensEntry)
    IN  [k \in 1..Len(at) |-> p[at[k]]]

\* the names of the locations among LocationOrder that satisfy Test
NamesOf(Test(_)) ==
    LET picked == SelectSeq(LocationOrder, Test)
    IN  [j \in 1..Len(picked) |-> LocationName(picked[j])]

LocationEnabled(label) == SectionOf(build_config, label).enabled
\* the location is enabled and has a non-blank text or an image URL
LocationDescribed(label) ==
    LET loc == SectionOf(build_config, label)
    IN  loc.enabled /\ (strip(loc.text) # "" \/ Truthy(loc.image_url))

JewelrySentences(p) == CountPieces(p, {"Jewelry and accessories: "})

(***************************************************************************)
(* C26 as stated: the prompt holds at most one aggregated jewelry          *)
(* sentence, and exactly one whenever at least one jewelry location is     *)
(* enabled; it lists the enabled locations in the order neck, ears,        *)
(* hands/wrists.                                                           *)
(***************************************************************************)
C26_OneSentenceWhenEnabled ==
    Assembled =>
        /\ JewelrySentences(prompt) <= 1
        /\ (\E label \in JewelryKeys : LocationEnabled(label))
              => JewelrySentences(prompt) = 1
        /\ ListedLocations(prompt) = NamesOf(LocationEnabled)

(***************************************************************************)
(* C26, amended: the prompt holds at most one aggregated jewelry sentence, *)
(* and exactly one whenever at least one enabled jewelry location has a    *)
(* non-blank text or an image URL; the sentence lists those locations in   *)
(* the order neck, ears, hands/wrists.  An enabled location with neither   *)
(* is not listed, and when no location is listed there is no sentence.     *)
(***************************************************************************)
C26_OneSentenceWhenDescribed ==
    Assembled =>
        /\ JewelrySentences(prompt) <= 1
        /\ JewelrySentences(prompt) = 1
              <=> \E label \in JewelryKeys : LocationDescribed(label)
        /\ ListedLocations(prompt) = NamesOf(LocationDescribed)

\* all three locations are enabled, the ears have nothing: one sentence that
\* lists the neck and then the hands/wrists
C26_Witness ==
    /\ Assembled
    /\ \A label \in JewelryKeys : LocationEnabled(label)
    /\ NamesOf(LocationDescribed) = <<"neck", "hands/wrists">>
    /\ JewelrySentences(prompt) = 1
    /\ ListedLocations(prompt) = <<"neck", "hands/wrists">>

\* the pieces that open an environment fragment of the prompt, in order
EnvironmentOpeners(p) ==
    LET Opens(piece) == piece \in {"Environment: ", "Background details: ",
                                   EnvironmentExtraction(<<>>)[1]}
    IN  SelectSeq(p, Opens)

SceneDescriptors ==
    {"professional studio setting", "indoor lifestyle environment",
     "outdoor urban environment", "outdoor natural environment"}

(***************************************************************************)
(* C27: for every environment record, whatever its method, the environment *)
(* fragments begin with exactly one category sentence, which renders the   *)
(* category of the four-way enum (studio, indoor_lifestyle, outdoor_urban, *)
(* outdoor_nature) as its fixed scene descriptor; the fragments of the     *)
(* method come after it, never in its place.                               *)
(***************************************************************************)
C27_CategorySentenceFirst ==
    Assembled =>
        LET env == build_config.environment
            openers == EnvironmentOpeners(prompt)
        IN  /\ env.category \in {"studio", "indoor_lifestyle", "outdoor_urban",
                                  "outdoor_nature"}
            /\ category_description(env.category) \in SceneDescriptors
            /\ openers # <<>>
            /\ openers[1] = "Environment: "
            /\ \A j \in 2..Len(openers) : openers[j] # "Environment: "
            /\ Contains(prompt, <<"Environment: ", category_description(env.category),
                                  ".">>)
            /\ CountPieces(prompt, SceneDescriptors) = 1

\* an outdoor category with a text of the environment: the category sentence
\* and then the background details
C27_Witness ==
    /\ Assembled
    /\ build_config.environment.category = "outdoor_urban"
    /\ build_config.environment.method = "text_description"
    /\ EnvironmentOpeners(prompt) = <<"Environment: ", "Background details: ">>
    /\ Contains(prompt, <<"Environment: ", "outdoor urban environment", ".">>)

\* the free text the configuration carries for the section of a label
TextOf(config, label) ==
    IF label \in {"model_ref", "outfit", "environment"}
    THEN SectionOf(config, label).text_description
    ELSE SectionOf(config, label).text

\* the section is one the builders consider: a jewelry location is enabled
Considered(config, label) ==
    label \in JewelryKeys => SectionOf(config, label).enabled

(***************************************************************************)
(* C28: every non-blank free text that a configuration of build_config     *)
(* carries for a considered section (model reference, base outfit, an      *)
(* additional item, an enabled jewelry location, environment, pose, hair)  *)
(* appears verbatim in the composed prompt, also when the same section     *)
(* carries an image reference.                                             *)
(***************************************************************************)
C28_FreeTextReachesPrompt ==
    Assembled =>
        \A label \in Range(SectionOrder(build_config)) :
            (Considered(build_config, label)
             /\ strip(TextOf(build_config, label)) # "")
               => TextOf(build_config, label) \in Range(prompt)

\* the prompt p tells the generator to take something from the reference
\* image of the section of a label
RefersToImage(config, label, p) ==
    CASE label = "model_ref" -> CountPieces(p, KeepFacePieces) >= 1
      [] label = "outfit" ->
           "CRITICAL REQUIREMENT: Extract ONLY the clothing/outfit from " \in Range(p)
      [] label \in JewelryKeys ->
           \/ Contains(p, <<LocationName(label), ": extract ONLY the jewelry from ">>)
           \/ Contains(p, <<LocationName(label), ": ", SectionOf(config, label).text,
                            " (extract jewelry from ">>)
      [] label = "environment" -> EnvironmentExtraction(<<>>)[1] \in Range(p)
      [] label = "pose" -> PoseExtraction(<<>>, 0)[1] \in Range(p)
      [] label = "hair" -> HairExtraction(<<>>)[1] \in Range(p)
      [] OTHER ->
           LET item == ItemOf(config, label)
           IN  Contains(p, <<item.type, ": extract ONLY the ", item.type, " from ">>)

(***************************************************************************)
(* C29: if the fetch of a section's image fails during the assembly, the   *)
(* prompt of that run does not tell the generator to extract anything from *)
(* that section's reference image: the prompt refers to the reference      *)
(* image of a section that carries one only when the parts sent with it    *)
(* hold an inline-image part for that section.                             *)
(***************************************************************************)
C29_NoDirectiveWithoutImagePart ==
    Assembled =>
        \A label \in Range(SectionOrder(build_config)) :
            (CarriesImage(build_config, label)
             /\ RefersToImage(build_config, label, prompt))
               => /\ label \notin failed_fetches
                  /\ Contributed(build_config, label, image_parts)

(***************************************************************************)
(* C30: under any sequence of image uploads, Add Item and Remove in the    *)
(* Accessories tab, an item appended to additional_items carries a         *)
(* non-empty image_url only if an image was uploaded for it after the      *)
(* previous Add Item; an item added with a description only has an empty   *)
(* image_url and never inherits the image of an earlier item.              *)
(***************************************************************************)
C30_ImageOnlyAfterUpload ==
    [][Len(additional_items') = Len(additional_items) + 1
          => (additional_items'[Len(additional_items')].image_url # ""
                 => item_uploads > added_at)]_vars

====
